---- MODULE Spec2Model ----
(***************************************************************************)
(* Chimera core: the context-assembly and tool-call pipeline of            *)
(* chimera_core (Orchestrator, ContextEngine, the four memory managers,    *)
(* ApiManager / OpenAIProvider, PluginManager).                            *)
(*                                                                         *)
(* Processes.  main.py declares every endpoint `async def` and calls the   *)
(* synchronous Orchestrator from it, so requests and deletions run one at  *)
(* a time on the event loop (variable pc).  The background summarizer is a *)
(* plain function handed to BackgroundTasks: it runs in the thread pool    *)
(* after the response was sent, concurrently with later requests (variable *)
(* tasks).  Store operations are the atomic steps.                         *)
(*                                                                         *)
(* Backends fail nondeterministically; `faults` counts the failures of a   *)
(* run and MaxFaults bounds them.  Each specification says under which     *)
(* operations they fail:                                                   *)
(*   Spec        the requests, with a model that may ask for tools;        *)
(*   SpecMemory  requests, summarizer runs and deletions interleaved;      *)
(*   SpecDelete  requests and deletions;                                   *)
(*   SpecTools   requests whose model asks for several tools in a round;   *)
(*   SpecExtract the entity extraction on every reply up to MaxLen tokens; *)
(*   SpecRetrieve build_augmented_prompt step by step, on every content of *)
(*               the stores it reads;                                      *)
(*   SpecProviders calls of ApiManager.get_provider on its cache;          *)
(*   SpecSettings requests that carry any settings, and the settings       *)
(*               endpoints.                                                *)
(***************************************************************************)
EXTENDS Integers, Sequences, FiniteSets, TLC

(* ----------------------------- bounds ---------------------------------- *)
InitRequests == 5      \* requests already served when the process starts
MaxRequests == 2       \* chat requests handled in a run
MaxRounds == 2         \* tool rounds the model asks for in one request
MaxFaults == 1         \* backend failures injected in a run
MaxDeletes == 1        \* session deletions in a run
MaxLen == 5            \* tokens of an entity-extraction reply
MaxChars == 400        \* characters of the longest document of the similarity index
MaxCalls == 3          \* direct calls of ApiManager.get_provider in a run

(* ------------------------- program constants --------------------------- *)
SummaryThreshold == 10   \* orchestrator.py:175  if turn_count > 10
KeepTurns == 10          \* orchestrator.py:192 / 223  len(all_turns) - 10, trim_history(.., 10)
HistoryTurns == 10       \* context_engine.py:179  get_recent_turns(num_turns=10)
SnippetChars == 300      \* context_engine.py:144  doc[:300] + "..." if len(doc) > 300
NResults == 5            \* context_engine.py:137  search_similar(n_results=5)
RelatedLimit == 5        \* context_engine.py:151  get_related_entities(limit=5)

Sessions == {"s1", "s2"}
UserPrompt == "prompt"
(* UserRequest.prompt is any str (main.py:27), the empty one included *)
Prompts == {UserPrompt, ""}
ErrText == "Error de OpenAI"          \* openai_provider.py:71  content of the simulated message
FallbackText == "No se recibio respuesta del LLM."   \* orchestrator.py:166

Max(a, b) == IF a > b THEN a ELSE b
Min(a, b) == IF a < b THEN a ELSE b

(* the last n elements of s: Redis LRANGE / LTRIM key -n -1.  -0 is 0 in   *)
(* Python, so n = 0 addresses the whole list.                              *)
Range(s, n) == IF n = 0 THEN s ELSE SubSeq(s, Max(1, Len(s) - n + 1), Len(s))

VARIABLES
    \* --- stores -------------------------------------------------------
    buffer,          \* Redis: session -> list of turns (recent-turn buffer)
    summary,         \* SQLite table sessions: session -> rolling summary row
    session_info,    \* SQLite table session_info: the sessions created
    chroma,          \* ChromaDB collection: set of documents
    graph_sessions,  \* Neo4j :Session nodes
    graph_messages,  \* Neo4j :Message nodes (each linked to its session)
    \* --- process-wide objects ----------------------------------------
    providers,       \* ApiManager.providers: the provider classes discovered
    loaded_instances,\* ApiManager.loaded_instances: the cache, key -> instance
    llm_config,      \* Orchestrator.llm_config
    \* --- the handler running on the event loop -----------------------
    pc,              \* its position
    req,             \* its arguments and locals
    api_history,     \* the conversation state sent to the model
    response,        \* response_message
    result,          \* what the last handler returned to its caller
    \* --- background tasks --------------------------------------------
    tasks,           \* the summarizer runs dispatched and not finished, in dispatch order
    lastRun,         \* the run that finished last, as it ended
    \* --- bookkeeping -------------------------------------------------
    nextId,          \* next turn id (uuid4 in the code)
    requests, deletes, faults,
    \* --- entity extraction as a function (SpecExtract) ---------------
    ex_reply, ex_out,
    \* --- build_augmented_prompt step by step (SpecRetrieve) ----------
    rt               \* its locals, and the log of the queries it issued

stores == <<buffer, summary, session_info, chroma, graph_sessions, graph_messages>>
process == <<providers, loaded_instances, llm_config>>
handler == <<pc, req, api_history, response, result>>
counters == <<nextId, requests, deletes, faults>>
extract == <<ex_reply, ex_out>>
background == <<tasks, lastRun>>
vars == <<stores, process, handler, background, counters, extract, rt>>

(* ------------------------------ data ----------------------------------- *)
Turn(role, content, id) == [role |-> role, content |-> content, id |-> id]
Document(s, text, role, id) == [session_id |-> s, document |-> text, role |-> role, id |-> id]
Message(s, role, text, id) == [session_id |-> s, role |-> role, text |-> text, turn_id |-> id]

(* no LLMSettings *)
NoSettings == [provider_name |-> "", model_name |-> "", temperature |-> 0, max_tokens |-> 0]

NoSummary == [present |-> FALSE, summary |-> "", turn_count |-> 0]
NoReq == [session_id |-> "", user_prompt |-> "", idx |-> 0,
          mainCalls |-> 0, toolExecs |-> 0, toolRaises |-> 0, final_response_text |-> "",
          user_turn_id |-> 0, assistant_turn_id |-> 0, persisted |-> {},
          llm_settings |-> NoSettings,
          llm_provider |-> <<"", "">>, api_call_params |-> [temperature |-> 0, max_tokens |-> 0]]
NoResponse == [content |-> "", tool_calls |-> <<>>]
NoResult == [kind |-> "none", text |-> "", session_id |-> "", rounds |-> 0,
             user_turn_id |-> 0, assistant_turn_id |-> 0, persisted |-> {}, dispatched |-> FALSE,
             failed |-> {}, key |-> <<"", "">>, instance |-> 0, llm_settings |-> NoSettings]

(* a summarizer run as BackgroundTasks holds it *)
NewTask(s, id) == [session_id |-> s, id |-> id, pc |-> "read", all_turns |-> <<>>, turns_to_summarize |-> <<>>,
               summary_text |-> "", model_failed |-> FALSE, stored |-> FALSE, trimmed |-> FALSE,
               alone |-> TRUE, outcome |-> "", removed |-> <<>>]

NoRun == [NewTask("", 0) EXCEPT !.pc = "none"]

(* the reply to an entity-extraction call, and what the call gave back *)
NoReply == [kind |-> "text", tokens |-> <<>>]
NoOutcome == [done |-> FALSE, raised |-> FALSE, entities |-> <<>>]

(* the locals of build_augmented_prompt (context_engine.py:115-194), with  *)
(* the queries it issued so far and the backends that failed under it      *)
NoRetrieval == [pc |-> "none", session_id |-> "", neo4j_manager |-> FALSE,
                relevant_context_snippets |-> <<>>, entity_names |-> <<>>, k |-> 0,
                structural_info_parts |-> <<>>, unique_snippets |-> <<>>,
                synthesized_context |-> <<>>, final_context |-> <<>>,
                intent |-> "", system_prompt |-> <<>>, history |-> <<>>,
                queries |-> <<>>, synth_calls |-> 0, failed |-> {},
                extract_reply |-> NoReply, synth_reply |-> NoReply]

(* what the stores hold when the process starts: the turns of the          *)
(* InitRequests requests an earlier run served for session s1, which was   *)
(* created through POST /v1/sessions; s2 was never created.                *)
InitTurn(i) == IF i % 2 = 1 THEN Turn("user", UserPrompt, i) ELSE Turn("assistant", "answer", i)
InitBuffer == [i \in 1..(2 * InitRequests) |-> InitTurn(i)]

(* LLMSettings carried by a request (orchestrator.py:13-17) *)
Settings == { [provider_name |-> "openai", model_name |-> "gpt-4o-mini", temperature |-> 7, max_tokens |-> 1500],
              [provider_name |-> "nope", model_name |-> "m", temperature |-> 2, max_tokens |-> 100] }
(* the same, with another model of a provider that exists *)
ModelSettings ==
    Settings \cup { [provider_name |-> "openai", model_name |-> "gpt-3.5-turbo", temperature |-> 0, max_tokens |-> 800] }
DefaultConfig == [provider_name |-> "openai", model_name |-> "gpt-4o-mini", temperature |-> 7, max_tokens |-> 1500]

(* The plugin registry: plugin name -> the tools it declares. *)
Plugins == [file_system |-> {"list_directory", "read_file"},
            knowledge_base |-> {"query_knowledge_base"},
            email_client |-> {"send_email"}]

ToolCall(id, name, arguments) == [id |-> id, name |-> name, arguments |-> arguments]

(* Replies of the chat model.  arguments is the JSON text of the call:     *)
(* "obj" a JSON object, "bad" text that is no JSON, "arr" a JSON array.    *)
FinalReplies == { [content |-> "answer", tool_calls |-> <<>>] }
ToolReplies == { [content |-> "partial", tool_calls |-> <<ToolCall(1, "read_file", "obj")>>],
                 [content |-> "partial", tool_calls |-> <<ToolCall(1, "no_such_tool", "obj"),
                                                          ToolCall(2, "send_email", "bad")>>],
                 [content |-> "partial", tool_calls |-> <<ToolCall(1, "read_file", "arr")>>] }

(* replies that ask for several tools at once *)
RoundReplies == { [content |-> "partial", tool_calls |-> <<ToolCall(1, "list_directory", "obj"),
                                                           ToolCall(2, "query_knowledge_base", "obj")>>],
                  [content |-> "partial", tool_calls |-> <<ToolCall(1, "read_file", "obj"),
                                                           ToolCall(2, "no_such_tool", "obj"),
                                                           ToolCall(3, "send_email", "bad")>>] }

(* a reply that asks for an e-mail with all its arguments *)
EmailReplies == { [content |-> "partial", tool_calls |-> <<ToolCall(1, "send_email", "obj")>>] }

(* the failures still allowed: subsets F of the operations ops of a step *)
FaultSets(ops) == { F \in SUBSET ops : faults + Cardinality(F) <= MaxFaults }

(* the operations that can fail *)
AllOps == {"sqlite_conn", "sqlite_exec", "redis", "chroma", "neo4j", "neo4j_user", "neo4j_assistant",
           "openai", "openai_none"}

(* ------------------------------ Init ----------------------------------- *)
InitStores ==
    /\ buffer = [s \in Sessions |-> IF s = "s1" THEN InitBuffer ELSE <<>>]
    /\ summary = [s \in Sessions |-> NoSummary]
    /\ session_info = {"s1"}
    /\ chroma = { Document("s1", "answer", "assistant", i) : i \in { j \in 1..(2 * InitRequests) : j % 2 = 0 } }
    /\ graph_sessions = {"s1"}
    /\ graph_messages = { Message("s1", InitTurn(i).role, InitTurn(i).content, i) : i \in 1..(2 * InitRequests) }

InitHandler ==
    /\ pc = "idle"
    /\ req = NoReq
    /\ api_history = <<>>
    /\ response = NoResponse
    /\ result = NoResult

InitCounters ==
    /\ nextId = 2 * InitRequests + 1
    /\ requests = 0
    /\ deletes = 0
    /\ faults = 0

Init ==
    /\ InitStores
    /\ providers \in { {"openai"}, {} }
    /\ loaded_instances = {}
    /\ llm_config = DefaultConfig
    /\ InitHandler
    /\ tasks = <<>>
    /\ lastRun = NoRun
    /\ InitCounters
    /\ ex_reply = NoReply
    /\ ex_out = NoOutcome
    /\ rt = NoRetrieval

(* --------------------------- RedisManager ------------------------------ *)
(* Every method catches redis.exceptions.RedisError and goes on; ok says   *)
(* whether the Redis command went through.                                 *)
add_turn_m(buf, turn, ok) == IF ok THEN <<turn>> \o buf ELSE buf
add_turn(buf, turn, ok) == IF ok THEN Append(buf, turn) ELSE buf

get_recent_turns(buf, num_turns, ok) == IF ok THEN Range(buf, num_turns) ELSE <<>>

trim_history_m(buf, max_len, ok) == IF ok THEN SubSeq(buf, 1, Min(Len(buf), max_len)) ELSE buf
trim_history(buf, max_len, ok) == IF ok THEN Range(buf, max_len) ELSE buf

delete_session_history(buf, ok) == IF ok THEN <<>> ELSE buf

(* --------------------------- SQLiteManager ----------------------------- *)
(* o is the outcome of the SQLite work: "ok"; "conn" when sqlite3.connect  *)
(* raises (every method connects before its try block, so the error        *)
(* escapes the method); "exec" when the statement raises sqlite3.Error,    *)
(* which the method catches.                                               *)
SqliteOutcomes == {"ok", "conn", "exec"}

update_summary(row, text, turn_count, o) ==
    IF o = "ok" THEN [present |-> TRUE, summary |-> text, turn_count |-> turn_count] ELSE row

get_summary(row, o) == IF o = "ok" THEN row ELSE NoSummary

(* ---------------------------- ApiManager ------------------------------- *)
(* line 72: the provider class was discovered *)
get_provider_m(provider_name) == TRUE
get_provider(provider_name) == provider_name \in providers

(* an entry of loaded_instances: instance_key = (provider_name, model_name)*)
(* and the instance stored under it.  Instances are numbered as they are   *)
(* created; 0 stands for None.                                             *)
Entry(provider_name, model_name, instance) ==
    [provider_name |-> provider_name, model_name |-> model_name, instance |-> instance]

Cached(cache, provider_name, model_name) ==
    { e \in cache : e.provider_name = provider_name /\ e.model_name = model_name }

Got(instance, cache) == [instance |-> instance, loaded_instances |-> cache]

(* a get_provider that instantiates on every call *)
get_provider_fresh_m(cache, provider_name, model_name, ok) ==
    IF provider_name \notin providers \/ ~ ok THEN Got(0, cache)
    ELSE LET instance == Cardinality(cache) + 1
         IN Got(instance, (cache \ Cached(cache, provider_name, model_name))
                          \cup {Entry(provider_name, model_name, instance)})

(* ApiManager.get_provider (api_manager.py:71-91): the instance returned   *)
(* and the cache afterwards; ok says whether the constructor of the       *)
(* provider class (line 86) returns                                        *)
get_provider_instance(cache, provider_name, model_name, ok) ==
    IF provider_name \notin providers THEN Got(0, cache)
    ELSE IF Cached(cache, provider_name, model_name) # {}
    THEN Got((CHOOSE e \in Cached(cache, provider_name, model_name) : TRUE).instance, cache)
    ELSE IF ok
    THEN LET instance == Cardinality(cache) + 1
         IN Got(instance, cache \cup {Entry(provider_name, model_name, instance)})
    ELSE Got(0, cache)

(* --------------------------- PluginManager ----------------------------- *)
find_plugin_for_tool_m(tool_name) == "file_system"
find_plugin_for_tool(tool_name) ==
    IF \E p \in DOMAIN Plugins : tool_name \in Plugins[p]
    THEN CHOOSE p \in DOMAIN Plugins : tool_name \in Plugins[p]
    ELSE ""

(* plugin.execute(tool_name, arguments): the status of the dictionary it   *)
(* returns, or "raises" when an exception leaves it: _is_safe_path of the  *)
(* file system plugin and the console confirmation of the e-mail plugin    *)
(* run outside their try blocks; the knowledge base plugin catches what    *)
(* its query raises                                                        *)
execute(plugin_name, tool_name, arguments) ==
    IF plugin_name = "email_client" /\ arguments = "empty" THEN {"error"}
    ELSE IF plugin_name = "email_client" THEN {"success", "error", "cancelled", "raises"}
    ELSE IF plugin_name = "file_system" THEN {"success", "error", "raises"}
    ELSE {"success", "error"}

(* plugin_manager.py:58-61: what plugin.execute returned, or an error      *)
(* result when it raised                                                   *)
ToolResult_m(outcome) == outcome
ToolResult(outcome) == IF outcome = "raises" THEN "error" ELSE outcome

(* the statuses execute_tool can answer with *)
execute_tool(plugin_name, tool_name, arguments) ==
    { ToolResult(outcome) : outcome \in execute(plugin_name, tool_name, arguments) }

(* ---------------------------- Orchestrator ----------------------------- *)
(* line 113: while response_message and response_message.tool_calls *)
LoopContinues_m(resp) == resp # NoResponse
LoopLimited_m(resp) == resp.tool_calls # <<>> /\ req.mainCalls < 1
LoopContinues(resp) == resp.tool_calls # <<>>

(* line 166: response_message.content if response_message else the fixed  *)
(* text; NoResponse stands for None                                        *)
FinalResponseText(resp) == IF resp = NoResponse THEN FallbackText ELSE resp.content

(* lines 119-123: json.loads, {} on JSONDecodeError *)
ParseArguments_m(arguments) == arguments
ParseArguments(arguments) == IF arguments = "bad" THEN "empty" ELSE arguments

(* line 175 *)
ShouldSummarize_m(turn_count) == turn_count > 0
ShouldSummarize_once_m(turn_count) == turn_count = SummaryThreshold + 2
ShouldSummarize(turn_count) == turn_count > SummaryThreshold

HistoryMessage(role, content, tool_call_id, name) ==
    [role |-> role, content |-> content, tool_call_id |-> tool_call_id, name |-> name]

SystemMessage == HistoryMessage("system", "system_prompt", 0, "")

AsMessages(turns) == [i \in 1..Len(turns) |-> HistoryMessage(turns[i].role, turns[i].content, 0, "")]

(* another process changed the buffer or the summary of session s: the     *)
(* runs in flight for s are no longer alone                                *)
Disturb(ts, s) ==
    [i \in 1..Len(ts) |->
        IF ts[i].session_id = s /\ ts[i].pc \in {"model", "update", "trim"}
        THEN [ts[i] EXCEPT !.alone = FALSE] ELSE ts[i]]

Returns(kind, text, dispatched) ==
    [kind |-> kind, text |-> text, session_id |-> req.session_id, rounds |-> req.mainCalls,
     user_turn_id |-> req.user_turn_id, assistant_turn_id |-> req.assistant_turn_id,
     persisted |-> req.persisted, dispatched |-> dispatched, failed |-> {},
     key |-> <<"", "">>, instance |-> 0, llm_settings |-> NoSettings]

(* an exception leaves handle_user_request; F is the failure behind it *)
Raises(F) == [Returns("raised", "", FALSE) EXCEPT !.failed = F]

(* the handler is left: its locals are gone *)
Leave(res) ==
    /\ pc' = "idle"
    /\ result' = res
    /\ req' = NoReq
    /\ api_history' = <<>>
    /\ response' = NoResponse

(* update_llm_settings, lines 244-250: each argument that is not None      *)
(* replaces its entry of llm_config.  settings holds the arguments that    *)
(* are not None, by name.                                                  *)
update_llm_settings_m(config, settings) == config
update_llm_settings(config, settings) ==
    [f \in DOMAIN config |-> IF f \in DOMAIN settings THEN settings[f] ELSE config[f]]

(* handle_user_request, lines 39-51: the request's settings overwrite the  *)
(* process-wide configuration                                              *)
HandleUserRequest(s, user_prompt, settings, limit) ==
    /\ pc = "idle"
    /\ requests < limit
    /\ requests' = requests + 1
    /\ llm_config' = update_llm_settings(llm_config, settings)
    /\ req' = [NoReq EXCEPT !.session_id = s, !.user_prompt = user_prompt, !.llm_settings = settings]
    /\ result' = NoResult
    /\ pc' = "build"
    /\ UNCHANGED <<stores, providers, loaded_instances, api_history, response, background,
                   nextId, deletes, faults, extract, rt>>

(* build_augmented_prompt (context_engine.py:115-194) as far as the        *)
(* conversation state goes: the summary is read, then the last 10 turns;   *)
(* api_history = [system] + history (orchestrator.py:70).  The steps       *)
(* between the two reads (RetrieveSummary .. AssemblePrompt below) decide  *)
(* the text of the system prompt only.                                     *)
BuildAugmentedPrompt(may) ==
    /\ pc = "build"
    /\ \E F \in FaultSets({"sqlite_conn", "redis"} \cap may) :
         /\ faults' = faults + Cardinality(F)
         /\ IF "sqlite_conn" \in F
            THEN Leave(Raises({"sqlite_conn"}))
            ELSE /\ api_history' = <<SystemMessage>> \o
                        AsMessages(get_recent_turns(buffer[req.session_id], HistoryTurns, "redis" \notin F))
                 /\ pc' = "provider"
                 /\ UNCHANGED <<req, response, result>>
    /\ UNCHANGED <<stores, process, background, nextId, requests, deletes, extract, rt>>

(* lines 73-86: the provider instance of the configured provider and       *)
(* model, then the call parameters, both read from llm_config              *)
GetProvider ==
    /\ pc = "provider"
    /\ IF get_provider(llm_config.provider_name)
       THEN /\ loaded_instances' = get_provider_instance(loaded_instances, llm_config.provider_name,
                                                         llm_config.model_name, TRUE).loaded_instances
            /\ req' = [req EXCEPT !.llm_provider = <<llm_config.provider_name, llm_config.model_name>>,
                                  !.api_call_params = [temperature |-> llm_config.temperature,
                                                       max_tokens |-> llm_config.max_tokens]]
            /\ pc' = "AWAITING_MODEL"
            /\ UNCHANGED <<api_history, response, result>>
       ELSE /\ Leave(Returns("error", "Proveedor no encontrado", FALSE))
            /\ UNCHANGED loaded_instances
    /\ UNCHANGED <<stores, providers, llm_config, background, counters, extract, rt>>

(* OpenAIProvider.generate_response (openai_provider.py:40-75): the prompt,*)
(* when given, is appended to the caller's list (messages = history); an   *)
(* API error comes back as a message whose content is the error text.      *)
generate_response(history, prompt) ==
    IF prompt = "" THEN history ELSE Append(history, HistoryMessage("user", prompt, 0, ""))

(* lines 109-115 and 162-166: one call of the model, then the loop test *)
CallModel(replies, may) ==
    /\ pc = "AWAITING_MODEL"
    /\ req.mainCalls <= MaxRounds
    /\ \E F \in FaultSets({"openai"} \cap may) :
       \E r \in (IF "openai" \in F THEN { [content |-> ErrText, tool_calls |-> <<>>] }
                 ELSE { x \in replies : x.tool_calls # <<>> => req.mainCalls < MaxRounds }) :
         LET sent == generate_response(api_history, IF req.mainCalls = 0 THEN req.user_prompt ELSE "")
         IN /\ faults' = faults + Cardinality(F)
            /\ response' = r
            /\ IF LoopContinues(r)
               THEN /\ api_history' = Append(sent, HistoryMessage("assistant", r.content, 0, "tool_calls"))
                    /\ req' = [req EXCEPT !.mainCalls = @ + 1, !.idx = 1]
                    /\ pc' = IF r.tool_calls = <<>> THEN "AWAITING_MODEL" ELSE "EXECUTING_TOOLS"
               ELSE /\ api_history' = sent
                    /\ req' = [req EXCEPT !.mainCalls = @ + 1,
                                          !.final_response_text = FinalResponseText(r)]
                    /\ pc' = "ANSWERED"
    /\ UNCHANGED <<stores, process, result, background, nextId, requests, deletes, extract, rt>>

(* lines 137-139: the result of an invocation as it enters the             *)
(* conversation state                                                      *)
ToolMessage_m(tool_call, content) == HistoryMessage("tool", content, 0, tool_call.name)
ToolMessage(tool_call, content) == HistoryMessage("tool", content, tool_call.id, tool_call.name)

(* lines 117-139: the invocation at position idx of the round; the plugin  *)
(* raises only where may has "plugin"                                      *)
ExecuteTool(may) ==
    /\ pc = "EXECUTING_TOOLS"
    /\ LET tool_call == response.tool_calls[req.idx]
           arguments == ParseArguments(tool_call.arguments)
           plugin_name == find_plugin_for_tool(tool_call.name)
           after == IF req.idx = Len(response.tool_calls) THEN "AWAITING_MODEL" ELSE "EXECUTING_TOOLS"
       IN IF plugin_name = ""
          THEN /\ req' = [req EXCEPT !.idx = @ + 1]
               /\ pc' = after
               /\ UNCHANGED <<api_history, response, result>>
          ELSE IF arguments = "arr"
          THEN Leave(Returns("raised", "", FALSE))
          ELSE \E outcome \in execute(plugin_name, tool_call.name, arguments)
                                \ (IF "plugin" \in may THEN {} ELSE {"raises"}) :
               /\ api_history' = Append(api_history, ToolMessage(tool_call, ToolResult(outcome)))
               /\ req' = [req EXCEPT !.idx = @ + 1, !.toolExecs = @ + 1,
                                     !.toolRaises = @ + (IF outcome = "raises" THEN 1 ELSE 0)]
               /\ pc' = after
               /\ UNCHANGED <<response, result>>
    /\ UNCHANGED <<stores, process, background, counters, extract, rt>>

(* save_turn, context_engine.py:205 (after the turn ids of                  *)
(* orchestrator.py:169-170): the user turn goes to Redis                   *)
SaveUserTurn(may) ==
    /\ pc = "ANSWERED"
    /\ \E F \in FaultSets({"redis"} \cap may) :
         LET s == req.session_id
             ok == "redis" \notin F
         IN /\ faults' = faults + Cardinality(F)
            /\ buffer' = [buffer EXCEPT ![s] = add_turn(@, Turn("user", req.user_prompt, nextId), ok)]
            /\ req' = [req EXCEPT !.user_turn_id = nextId, !.assistant_turn_id = nextId + 1,
                                  !.persisted = IF ok THEN {"redis_user"} ELSE {}]
            /\ tasks' = IF ok THEN Disturb(tasks, s) ELSE tasks
    /\ nextId' = nextId + 2
    /\ pc' = "save_assistant"
    /\ UNCHANGED <<summary, session_info, chroma, graph_sessions, graph_messages, process,
                   api_history, response, result, lastRun, requests, deletes, extract, rt>>

(* Neo4jManager._create_message_and_link_entities (neo4j_manager.py:58-80):*)
(* MATCH (s:Session ...) MERGE (m:Message ...): without the session node   *)
(* the query matches nothing and creates nothing                           *)
add_message_and_entities(messages, s, role, text, id, ok) ==
    IF ok /\ s \in graph_sessions THEN messages \cup {Message(s, role, text, id)} ELSE messages

(* ChromaManager.add_entry (chroma_manager.py:30-42) *)
add_entry_m(docs, s, text, role, id, ok) == docs
add_entry(docs, s, text, role, id, ok) ==
    IF ok THEN docs \cup {Document(s, text, role, id)} ELSE docs

(* save_turn, context_engine.py:206-216: the assistant turn goes to Redis  *)
(* and to ChromaDB, then both turns go to Neo4j                            *)
SaveAssistantTurn(may) ==
    /\ pc = "save_assistant"
    /\ \E F \in FaultSets({"redis", "chroma", "neo4j_user", "neo4j_assistant"} \cap may) :
         LET s == req.session_id
             text == req.final_response_text
             ok(op) == op \notin F
             inGraph(op) == ok(op) /\ s \in graph_sessions
             done == (IF ok("redis") THEN {"redis_assistant"} ELSE {})
                     \cup (IF ok("chroma") THEN {"chroma_assistant"} ELSE {})
                     \cup (IF inGraph("neo4j_user") THEN {"neo4j_user"} ELSE {})
                     \cup (IF inGraph("neo4j_assistant") THEN {"neo4j_assistant"} ELSE {})
         IN /\ faults' = faults + Cardinality(F)
            /\ buffer' = [buffer EXCEPT ![s] = add_turn(@, Turn("assistant", text, req.assistant_turn_id), ok("redis"))]
            /\ chroma' = add_entry(chroma, s, text, "assistant", req.assistant_turn_id, ok("chroma"))
            /\ graph_messages' =
                 add_message_and_entities(
                    add_message_and_entities(graph_messages, s, "user", req.user_prompt,
                                             req.user_turn_id, ok("neo4j_user")),
                    s, "assistant", text, req.assistant_turn_id, ok("neo4j_assistant"))
            /\ req' = [req EXCEPT !.persisted = @ \cup done]
            /\ tasks' = IF ok("redis") THEN Disturb(tasks, s) ELSE tasks
    /\ pc' = "check"
    /\ UNCHANGED <<summary, session_info, graph_sessions, process, api_history, response, result,
                   lastRun, nextId, requests, deletes, extract, rt>>

(* orchestrator.py:173-181: LLEN on the Redis client itself (no try), the  *)
(* dispatch of the summarizer, the return                                  *)
CheckAndReturn(may) ==
    /\ pc = "check"
    /\ \E F \in FaultSets({"redis"} \cap may) :
         /\ faults' = faults + Cardinality(F)
         /\ IF "redis" \in F
            THEN /\ Leave(Raises({"redis"}))
                 /\ UNCHANGED tasks
            ELSE LET turn_count == Len(buffer[req.session_id])
                 IN /\ tasks' = IF ShouldSummarize(turn_count)
                                THEN Append(tasks, NewTask(req.session_id, requests)) ELSE tasks
                    /\ Leave(Returns("response", req.final_response_text, ShouldSummarize(turn_count)))
    /\ UNCHANGED <<stores, process, lastRun, nextId, requests, deletes, extract, rt>>

(* ------------------- _summarize_and_update_mid_term_memory ------------- *)
(* line 192 *)
NumTurnsToSummarize(all_turns) == Len(all_turns) - KeepTurns

(* line 198: all_turns[:num_turns_to_summarize] *)
TurnsToSummarize_m(all_turns) == SubSeq(all_turns, KeepTurns + 1, Len(all_turns))
TurnsToSummarize(all_turns) == SubSeq(all_turns, 1, NumTurnsToSummarize(all_turns))

(* line 219: update_summary(session_id, new_summary, len(all_turns)) *)
Watermark_m(all_turns) == NumTurnsToSummarize(all_turns)
Watermark(all_turns) == Len(all_turns)

Finish(t, outcome) == [t EXCEPT !.pc = "done", !.outcome = outcome]

Without(ts, i) == [j \in 1..(Len(ts) - 1) |-> IF j < i THEN ts[j] ELSE ts[j + 1]]

(* task i goes on as t, or ends as t *)
Step(ts, i, t) == IF t.pc = "done" THEN Without(ts, i) ELSE [ts EXCEPT ![i] = t]
Ended(t) == IF t.pc = "done" THEN t ELSE lastRun

(* lines 190-195: the whole buffer is read (num_turns = 0) *)
SumRead(i) ==
    /\ i \in 1..Len(tasks)
    /\ tasks[i].pc = "read"
    /\ \E F \in FaultSets({"redis"}) :
         LET t == tasks[i]
             all_turns == get_recent_turns(buffer[t.session_id], 0, "redis" \notin F)
             t2 == IF NumTurnsToSummarize(all_turns) <= 0
                   THEN Finish([t EXCEPT !.all_turns = all_turns], "noop")
                   ELSE [t EXCEPT !.all_turns = all_turns, !.pc = "model"]
         IN /\ faults' = faults + Cardinality(F)
            /\ tasks' = Step(tasks, i, t2)
            /\ lastRun' = Ended(t2)
    /\ UNCHANGED <<stores, process, handler, nextId, requests, deletes, extract, rt>>

(* lines 198-216: the previous summary is read (outside the try block),    *)
(* the provider is resolved, the model is asked for the new summary.  The  *)
(* call fails in one of two ways: the API raises and the provider answers  *)
(* with its error text ("openai"), or the message has no content           *)
(* ("openai_none") and .strip() raises inside the try block.               *)
SumModel(i) ==
    /\ i \in 1..Len(tasks)
    /\ tasks[i].pc = "model"
    /\ \E F \in FaultSets({"sqlite_conn", "openai", "openai_none"}) :
         LET t == tasks[i]
             t2 == IF "sqlite_conn" \in F THEN Finish(t, "raised")
                   ELSE IF ~ get_provider("openai") THEN Finish(t, "no_provider")
                   ELSE IF "openai_none" \in F THEN Finish([t EXCEPT !.model_failed = TRUE], "failed")
                   ELSE [t EXCEPT !.turns_to_summarize = TurnsToSummarize(t.all_turns),
                                  !.summary_text = IF "openai" \in F THEN ErrText ELSE "summary",
                                  !.model_failed = "openai" \in F,
                                  !.pc = "update"]
         IN /\ Cardinality(F) <= 1
            /\ ~ get_provider("openai") => F \subseteq {"sqlite_conn"}
            /\ faults' = faults + Cardinality(F)
            /\ tasks' = Step(tasks, i, t2)
            /\ lastRun' = Ended(t2)
            /\ loaded_instances' = IF "sqlite_conn" \notin F /\ get_provider("openai")
                                   THEN get_provider_instance(loaded_instances, "openai", "gpt-3.5-turbo",
                                                              TRUE).loaded_instances
                                   ELSE loaded_instances
    /\ UNCHANGED <<stores, providers, llm_config, handler, nextId, requests, deletes, extract, rt>>

(* line 219; a connection error is caught by the except of line 225 *)
SumUpdate(i) ==
    /\ i \in 1..Len(tasks)
    /\ tasks[i].pc = "update"
    /\ \E o \in SqliteOutcomes :
         LET t == tasks[i]
             s == t.session_id
             t2 == IF o = "conn" THEN Finish(t, "failed")
                   ELSE [t EXCEPT !.stored = (o = "ok"), !.pc = "trim"]
         IN /\ o # "ok" => faults < MaxFaults
            /\ faults' = faults + (IF o = "ok" THEN 0 ELSE 1)
            /\ summary' = [summary EXCEPT ![s] = update_summary(@, t.summary_text, Watermark(t.all_turns), o)]
            /\ tasks' = Step(IF o = "ok" THEN Disturb(tasks, s) ELSE tasks, i, t2)
            /\ lastRun' = Ended(t2)
    /\ UNCHANGED <<buffer, session_info, chroma, graph_sessions, graph_messages, process, handler,
                   nextId, requests, deletes, extract, rt>>

(* line 223 *)
SumTrim(i) ==
    /\ i \in 1..Len(tasks)
    /\ tasks[i].pc = "trim"
    /\ \E F \in FaultSets({"redis"}) :
         LET t == tasks[i]
             s == t.session_id
             ok == "redis" \notin F
             kept == trim_history(buffer[s], KeepTurns, ok)
             t2 == Finish([t EXCEPT !.trimmed = ok,
                                    !.removed = SubSeq(buffer[s], 1, Len(buffer[s]) - Len(kept))],
                          IF ok /\ t.stored /\ ~ t.model_failed THEN "success" ELSE "partial")
         IN /\ faults' = faults + Cardinality(F)
            /\ buffer' = [buffer EXCEPT ![s] = kept]
            /\ tasks' = Step(IF ok THEN Disturb(tasks, s) ELSE tasks, i, t2)
            /\ lastRun' = Ended(t2)
    /\ UNCHANGED <<summary, session_info, chroma, graph_sessions, graph_messages, process, handler,
                   nextId, requests, deletes, extract, rt>>

(* ------------------------- delete_session_data ------------------------- *)
(* SQLiteManager.delete_session (sqlite_manager.py:124-137): both rows go  *)
(* in one transaction                                                      *)
delete_session(rows, s, o) == IF o = "ok" THEN rows \ {s} ELSE rows

(* ChromaManager.delete_session_entries (chroma_manager.py:68-77) *)
delete_session_entries(docs, s, ok) == IF ok THEN { d \in docs : d.session_id # s } ELSE docs

(* Neo4jManager.delete_session_graph (neo4j_manager.py:107-126): the       *)
(* session node and the messages it has                                    *)
delete_session_graph(messages, s, ok) ==
    IF ok /\ s \in graph_sessions THEN { m \in messages : m.session_id # s } ELSE messages

(* orchestrator.py:232-242: what the caller is told, given the stores      *)
(* whose deletion failed                                                   *)
DeleteReports(F) == "sqlite_conn" \notin F

(* orchestrator.py:228-242, called from DELETE /v1/sessions/{id} *)
DeleteSession(s, may) ==
    /\ pc = "idle"
    /\ deletes < MaxDeletes
    /\ deletes' = deletes + 1
    /\ \E F \in FaultSets({"sqlite_conn", "sqlite_exec", "redis", "chroma", "neo4j"} \cap may) :
         LET ok(op) == op \notin F
             reached == "sqlite_conn" \notin F   \* the connection error leaves the try block at once
             sql == IF "sqlite_conn" \in F THEN "conn" ELSE IF "sqlite_exec" \in F THEN "exec" ELSE "ok"
         IN /\ "sqlite_conn" \in F => F = {"sqlite_conn"}
            /\ ~ ({"sqlite_conn", "sqlite_exec"} \subseteq F)
            /\ faults' = faults + Cardinality(F)
            /\ session_info' = delete_session(session_info, s, sql)
            /\ summary' = [summary EXCEPT ![s] = IF sql = "ok" THEN NoSummary ELSE @]
            /\ buffer' = [buffer EXCEPT ![s] = delete_session_history(@, reached /\ ok("redis"))]
            /\ chroma' = delete_session_entries(chroma, s, reached /\ ok("chroma"))
            /\ graph_messages' = delete_session_graph(graph_messages, s, reached /\ ok("neo4j"))
            /\ graph_sessions' = IF reached /\ ok("neo4j") THEN graph_sessions \ {s} ELSE graph_sessions
            /\ tasks' = Disturb(tasks, s)
            /\ result' = [NoResult EXCEPT !.kind = "delete", !.session_id = s, !.failed = F,
                                          !.text = IF DeleteReports(F) THEN "True" ELSE "False"]
    /\ UNCHANGED <<process, pc, req, api_history, response, lastRun, nextId, requests, extract, rt>>

(* --------------------- _extract_entities_with_gpt ---------------------- *)
(* The content of a reply is a sequence of tokens: "[", "]", ","; "a", "b" *)
(* string literals; "n" a number; " " a whitespace character of JSON;      *)
(* "f" a whitespace character of Python that JSON does not have (form      *)
(* feed, no-break space); "x" any other character.                         *)
Tokens == {"[", "]", ",", "a", "b", "n", " ", "f", "x"}
StringTokens == {"a", "b"}
JsonSpace == {" "}
PySpace == {" ", "f"}

Contents == UNION { [1..n -> Tokens] : n \in 0..MaxLen }

(* kind "text": the model answered with the tokens; "none": a message      *)
(* whose content is None; "error": the API call raised, and the provider   *)
(* answers with its error text (openai_provider.py:69-75)                  *)
Replies == { [kind |-> "text", tokens |-> c] : c \in Contents }
           \cup { [kind |-> "none", tokens |-> <<>>], [kind |-> "error", tokens |-> <<"x">>] }

(* str.strip() *)
RECURSIVE LStrip(_)
LStrip(c) == IF c # <<>> /\ Head(c) \in PySpace THEN LStrip(Tail(c)) ELSE c

RECURSIVE RStrip(_)
RStrip(c) == IF c # <<>> /\ c[Len(c)] \in PySpace THEN RStrip(SubSeq(c, 1, Len(c) - 1)) ELSE c

Strip(c) == RStrip(LStrip(c))

(* json.loads: the scanner of the standard library.  i is the position of  *)
(* the next token; a parse gives ok, the position after it and the value   *)
(* (its type, and its text for a string).                                  *)
RECURSIVE SkipSpace(_, _)
SkipSpace(c, i) == IF i <= Len(c) /\ c[i] \in JsonSpace THEN SkipSpace(c, i + 1) ELSE i

ParseError == [ok |-> FALSE, next |-> 0, type |-> "", text |-> "", elements |-> <<>>]
Parsed(next, type, text) == [ok |-> TRUE, next |-> next, type |-> type, text |-> text, elements |-> <<>>]

RECURSIVE ParseValue(_, _), ParseElements(_, _, _)
ParseValue(c, i) ==
    IF i > Len(c) THEN ParseError
    ELSE IF c[i] \in StringTokens THEN Parsed(i + 1, "str", c[i])
    ELSE IF c[i] = "n" THEN Parsed(i + 1, "num", "n")
    ELSE IF c[i] = "["
         THEN LET j == SkipSpace(c, i + 1)
              IN IF j <= Len(c) /\ c[j] = "]"
                 THEN Parsed(j + 1, "list", "")
                 ELSE ParseElements(c, j, <<>>)
    ELSE ParseError

(* the elements of an array from position i on, after those in acc *)
ParseElements(c, i, acc) ==
    LET v == ParseValue(c, i)
        j == SkipSpace(c, v.next)
    IN IF ~ v.ok \/ j > Len(c) THEN ParseError
       ELSE IF c[j] = "]"
            THEN [Parsed(j + 1, "list", "") EXCEPT !.elements = Append(acc, [type |-> v.type, text |-> v.text])]
       ELSE IF c[j] = ","
            THEN ParseElements(c, SkipSpace(c, j + 1), Append(acc, [type |-> v.type, text |-> v.text]))
       ELSE ParseError

(* json.loads(s): leading whitespace, one value, trailing whitespace, end *)
Loads(c) ==
    LET v == ParseValue(c, SkipSpace(c, 1))
    IN IF v.ok /\ SkipSpace(c, v.next) = Len(c) + 1 THEN v ELSE ParseError

(* line 73: isinstance(entities, list) and all(isinstance(e, str) ...) *)
AllStrings_m(v) == v.type = "list"
AllStrings(v) == v.type = "list" /\ \A k \in 1..Len(v.elements) : v.elements[k].type = "str"

(* the exceptions the body of the try block raises, and the except clauses *)
(* of lines 79-84                                                          *)
Caught(exception) == exception \in {"JSONDecodeError", "AttributeError", "Exception"}

Returned(entities) == [done |-> TRUE, raised |-> FALSE, entities |-> entities]
Raised(exception) ==
    IF Caught(exception) THEN Returned(<<>>) ELSE [done |-> TRUE, raised |-> TRUE, entities |-> <<>>]

(* context_engine.py:42-84 *)
_extract_entities_with_gpt(reply) ==
    IF ~ get_provider("openai") THEN Returned(<<>>)
    ELSE IF reply.kind = "none" THEN Raised("AttributeError")
    ELSE LET entities_json == Strip(reply.tokens)
         IN IF entities_json = <<>> \/ entities_json[1] # "[" THEN Returned(<<>>)
            ELSE LET entities == Loads(entities_json)
                 IN IF ~ entities.ok THEN Raised("JSONDecodeError")
                    ELSE IF AllStrings(entities)
                         THEN Returned([k \in 1..Len(entities.elements) |-> entities.elements[k].text])
                         ELSE Returned(<<>>)

ExtractEntities ==
    /\ ~ ex_out.done
    /\ ex_out' = _extract_entities_with_gpt(ex_reply)
    /\ UNCHANGED <<stores, process, handler, background, counters, ex_reply, rt>>

(* ------------------------ build_augmented_prompt ----------------------- *)
(* context_engine.py:115-194, step by step (RetrieveSummary ..             *)
(* AssemblePrompt).  A text is a sequence of characters.                   *)
Text(n, ch) == [i \in 1..n |-> ch]

Ellipsis == <<".", ".", ".">>

Query(tier, entity_name, n_results, hits) ==
    [tier |-> tier, entity_name |-> entity_name, n_results |-> n_results, hits |-> hits]

(* the session identifiers a request can carry (main.py:24-28: any str) *)
RequestSessions == Sessions \cup {""}

(* what the stores hold when build_augmented_prompt is called *)
SummaryRows == { NoSummary,
                 [present |-> TRUE, summary |-> <<>>, turn_count |-> 12],
                 [present |-> TRUE, summary |-> Text(2, "x"), turn_count |-> 12] }

Collections ==
    { {},
      { Document("s1", Text(2, "x"), "assistant", 1), Document("s1", Text(MaxChars, "x"), "assistant", 2),
        Document("s2", Text(2, "y"), "assistant", 3) },
      { Document("s1", Text(SnippetChars, "x"), "assistant", 1),
        Document("s1", Text(SnippetChars + 1, "x"), "assistant", 2),
        Document("s1", Text(2, "x"), "assistant", 3), Document("s1", Text(2, "x"), "assistant", 4),
        Document("s1", Text(MaxChars, "x"), "assistant", 5), Document("s1", Text(3, "y"), "assistant", 6),
        Document("s2", Text(2, "y"), "assistant", 7) } }

(* the replies of gpt-3.5-turbo to the extraction prompt of a retrieval *)
RetrievalReplies ==
    { [kind |-> "text", tokens |-> c] :
        c \in { <<"[", "]">>, <<"x">>, <<"[", "a", "]">>, <<" ", "[", "a", ",", "b", "]">>,
                <<"[", "a", ",", "b", ",", "a", "]">> } }
    \cup { [kind |-> "none", tokens |-> <<>>] }

ErrorReply == [kind |-> "error", tokens |-> <<"x">>]
NoneReply == [kind |-> "none", tokens |-> <<>>]
SynthReply == [kind |-> "text", tokens |-> <<" ", "a", "b", " ">>]

(* the co-mentioned entities the graph holds for an entity, most frequent  *)
(* first                                                                   *)
RelatedAnswers == { <<>>, <<"r">>, <<"r", "q", "p", "o", "n", "m">> }

(* the intent of the directives: the labels of the table, another label,   *)
(* and "" for directives without intent (directives.get('intent') is None) *)
Intents == {"pregunta conceptual o técnica", "broma o comentario humorístico", "otra", ""}

(* line 136: the query text built for an entity *)
SearchQuery(entity_name) == <<"sobre", entity_name>>

(* the distance the embedding model puts between a query and a document,   *)
(* a function of the two that orders the documents                         *)
Distance(query_text, d) == IF query_text[2] = "a" THEN d.id ELSE 0 - d.id

RECURSIVE Ranked(_, _)
Ranked(docs, query_text) ==
    IF docs = {} THEN <<>>
    ELSE LET d == CHOOSE x \in docs : \A y \in docs : Distance(query_text, x) <= Distance(query_text, y)
         IN <<d>> \o Ranked(docs \ {d}, query_text)

(* chroma_manager.py:57-58: `if filter_by_session:` adds the where filter; *)
(* the empty string is false, and the query then has no filter             *)
InScope(docs, filter_by_session) ==
    IF filter_by_session # "" THEN { d \in docs : d.session_id = filter_by_session } ELSE docs

(* ChromaManager.search_similar (chroma_manager.py:44-66): the n_results   *)
(* nearest documents the query is scoped to; [] when the collection is     *)
(* missing or the query raises                                             *)
search_similar_m(docs, query_text, n_results, filter_by_session, ok) ==
    IF ok
    THEN LET ranked == Ranked(InScope(docs, filter_by_session), query_text)
         IN [i \in 1..Len(ranked) |-> ranked[i].document]
    ELSE <<>>

search_similar(docs, query_text, n_results, filter_by_session, ok) ==
    IF ok
    THEN LET ranked == Ranked(InScope(docs, filter_by_session), query_text)
         IN [i \in 1..Min(n_results, Len(ranked)) |-> ranked[i].document]
    ELSE <<>>

(* Neo4jManager.get_related_entities (neo4j_manager.py:82-105): LIMIT      *)
(* $limit; [] when the driver is missing or the query raises               *)
get_related_entities(answer, limit, ok) ==
    IF ok THEN SubSeq(answer, 1, Min(limit, Len(answer))) ELSE <<>>

(* line 144 *)
Truncate_m(doc) == IF Len(doc) >= SnippetChars THEN SubSeq(doc, 1, SnippetChars) \o Ellipsis ELSE doc
Truncate(doc) == IF Len(doc) > SnippetChars THEN SubSeq(doc, 1, SnippetChars) \o Ellipsis ELSE doc

truncated_results(chroma_results) == [i \in 1..Len(chroma_results) |-> Truncate(chroma_results[i])]

(* line 153 *)
StructuralInfo(entity_name, related_concepts) == <<"Sobre", entity_name>> \o related_concepts \o <<".">>

(* " ".join(parts) *)
RECURSIVE Join(_)
Join(parts) ==
    IF parts = <<>> THEN <<>>
    ELSE IF Len(parts) = 1 THEN parts[1]
    ELSE parts[1] \o <<" ">> \o Join(Tail(parts))

(* lines 156-159: the sentences go in as one snippet, when there is any *)
WithStructuralInfo_m(snippets, parts) == snippets \o parts
WithStructuralInfo(snippets, parts) == IF parts # <<>> THEN Append(snippets, Join(parts)) ELSE snippets

(* line 131: if entity_names *)
ShouldSearch_m(entity_names) == TRUE
ShouldSearch(entity_names) == entity_names # <<>>

(* dict.fromkeys(xs): the keys in the order of their first insertion *)
RECURSIVE FromKeys(_)
FromKeys(xs) ==
    IF xs = <<>> THEN <<>>
    ELSE LET before == FromKeys(SubSeq(xs, 1, Len(xs) - 1))
             x == xs[Len(xs)]
         IN IF \E i \in 1..Len(before) : before[i] = x THEN before ELSE Append(before, x)

(* line 164: list(dict.fromkeys(relevant_context_snippets)) *)
UniqueSnippets_m(relevant_context_snippets) == relevant_context_snippets
UniqueSnippets(relevant_context_snippets) == FromKeys(relevant_context_snippets)

(* context_engine.py:86-113; calls counts the requests sent to the model   *)
Synthesized(text, calls) == [text |-> text, calls |-> calls]

SynthesizeAlways_m(combined_snippets, reply) ==
    IF ~ get_provider("openai") THEN Synthesized(<<>>, 0)
    ELSE IF reply.kind = "none" THEN Synthesized(<<>>, 1)
    ELSE Synthesized(Strip(reply.tokens), 1)

_synthesize_context_with_gpt(combined_snippets, reply) ==
    IF combined_snippets = <<>> THEN Synthesized(<<>>, 0)
    ELSE IF ~ get_provider("openai") THEN Synthesized(<<>>, 0)
    ELSE IF reply.kind = "none" THEN Synthesized(<<>>, 1)
    ELSE Synthesized(Strip(reply.tokens), 1)

(* lines 196-200 *)
_translate_directives_to_prompt(intent) ==
    IF intent = "pregunta conceptual o técnica" THEN <<"preciso">>
    ELSE IF intent = "broma o comentario humorístico" THEN <<"divertido">>
    ELSE <<>>

(* line 174: the header, a newline, the synthesized context *)
FinalContext(synthesized_context) ==
    IF synthesized_context # <<>> THEN <<"CONTEXTO", "\n">> \o synthesized_context ELSE <<>>

(* line 188: filter(None, parts) keeps the parts that are not empty *)
FilterNone_m(parts) == parts
FilterNone(parts) == SelectSeq(parts, LAMBDA part : part # <<>>)

(* line 188: "\n".join(parts) *)
RECURSIVE JoinLines(_)
JoinLines(parts) ==
    IF parts = <<>> THEN <<>>
    ELSE IF Len(parts) = 1 THEN parts[1]
    ELSE parts[1] \o <<"\n">> \o JoinLines(Tail(parts))

(* PASO 0, lines 119-124: the rolling summary *)
RetrieveSummary ==
    /\ rt.pc = "summary"
    /\ \E o \in SqliteOutcomes :
         LET row == get_summary(summary[rt.session_id], o)
             asked == Append(rt.queries, Query("summary", "", 0, <<>>))
         IN /\ o # "ok" => faults < MaxFaults
            /\ faults' = faults + (IF o = "ok" THEN 0 ELSE 1)
            /\ rt' = IF o = "conn"
                     THEN [rt EXCEPT !.pc = "raised", !.queries = asked, !.failed = {"sqlite_conn"}]
                     ELSE [rt EXCEPT !.pc = "extract", !.queries = asked,
                                     !.failed = IF o = "exec" THEN {"sqlite_exec"} ELSE {},
                                     !.relevant_context_snippets =
                                         IF row.present /\ row.summary # <<>> THEN <<row.summary>> ELSE <<>>]
    /\ UNCHANGED <<stores, process, handler, background, nextId, requests, deletes, extract>>

(* PASO 1, lines 126-131: the entities of the user prompt *)
RetrieveEntities ==
    /\ rt.pc = "extract"
    /\ \E F \in FaultSets({"openai"}) :
       \E reply \in (IF "openai" \in F THEN {ErrorReply}
                     ELSE IF get_provider("openai") THEN RetrievalReplies ELSE {NoReply}) :
         LET out == _extract_entities_with_gpt(reply)
         IN /\ "openai" \in F => get_provider("openai")
            /\ faults' = faults + Cardinality(F)
            /\ rt' = IF out.raised
                     THEN [rt EXCEPT !.pc = "raised", !.failed = @ \cup F]
                     ELSE [rt EXCEPT !.entity_names = out.entities, !.extract_reply = reply, !.k = 1,
                                     !.failed = @ \cup F \cup (IF reply.kind = "none" THEN {"openai_none"} ELSE {}),
                                     !.pc = IF ShouldSearch(out.entities) THEN "chroma" ELSE "dedup"]
    /\ UNCHANGED <<stores, process, handler, background, nextId, requests, deletes, extract>>

(* PASO 2, lines 135-145: one similarity query for the entity at k *)
SearchSimilar ==
    /\ rt.pc = "chroma"
    /\ \E F \in FaultSets({"chroma"}) :
         LET entity_name == IF rt.k <= Len(rt.entity_names) THEN rt.entity_names[rt.k] ELSE ""
             chroma_results == search_similar(chroma, SearchQuery(entity_name), NResults, rt.session_id,
                                              "chroma" \notin F)
             last == rt.k >= Len(rt.entity_names)
         IN /\ faults' = faults + Cardinality(F)
            /\ rt' = [rt EXCEPT !.relevant_context_snippets = @ \o truncated_results(chroma_results),
                                !.queries = Append(@, Query("chroma", entity_name, NResults, chroma_results)),
                                !.failed = @ \cup F,
                                !.k = IF last THEN 1 ELSE @ + 1,
                                !.pc = IF ~ last THEN "chroma"
                                       ELSE IF rt.neo4j_manager THEN "neo4j" ELSE "dedup"]
    /\ UNCHANGED <<stores, process, handler, background, nextId, requests, deletes, extract>>

(* PASO 3, lines 148-159: the related entities of the entity at k; after   *)
(* the last one, the parts go in as one snippet                            *)
GetRelatedEntities ==
    /\ rt.pc = "neo4j"
    /\ \E F \in FaultSets({"neo4j"}) :
       \E answer \in (IF "neo4j" \in F THEN {<<>>} ELSE RelatedAnswers) :
         LET entity_name == IF rt.k <= Len(rt.entity_names) THEN rt.entity_names[rt.k] ELSE ""
             related_concepts == get_related_entities(answer, RelatedLimit, "neo4j" \notin F)
             parts == IF related_concepts # <<>>
                      THEN Append(rt.structural_info_parts, StructuralInfo(entity_name, related_concepts))
                      ELSE rt.structural_info_parts
             last == rt.k >= Len(rt.entity_names)
         IN /\ faults' = faults + Cardinality(F)
            /\ rt' = [rt EXCEPT !.structural_info_parts = parts,
                                !.relevant_context_snippets =
                                    IF last THEN WithStructuralInfo(@, parts) ELSE @,
                                !.queries = Append(@, Query("neo4j", entity_name, RelatedLimit, related_concepts)),
                                !.failed = @ \cup F,
                                !.k = IF last THEN 1 ELSE @ + 1,
                                !.pc = IF last THEN "dedup" ELSE "neo4j"]
    /\ UNCHANGED <<stores, process, handler, background, nextId, requests, deletes, extract>>

(* PASO 4 and 5, lines 163-175: the snippets without duplicates, and their *)
(* synthesis when there is any                                             *)
SynthesizeContext ==
    /\ rt.pc = "dedup"
    /\ \E F \in FaultSets({"openai", "openai_none"}) :
         LET unique_snippets == UniqueSnippets(rt.relevant_context_snippets)
             reply == IF "openai" \in F THEN ErrorReply
                      ELSE IF "openai_none" \in F THEN NoneReply ELSE SynthReply
             out == IF unique_snippets # <<>>
                    THEN _synthesize_context_with_gpt(unique_snippets, reply)
                    ELSE Synthesized(<<>>, 0)
         IN /\ Cardinality(F) <= 1
            /\ F # {} => (unique_snippets # <<>> /\ get_provider("openai"))
            /\ faults' = faults + Cardinality(F)
            /\ rt' = [rt EXCEPT !.unique_snippets = unique_snippets,
                                !.synth_reply = IF out.calls > 0 THEN reply ELSE NoReply,
                                !.synth_calls = out.calls,
                                !.synthesized_context = out.text,
                                !.final_context = FinalContext(out.text),
                                !.failed = @ \cup F,
                                !.pc = "assemble"]
    /\ UNCHANGED <<stores, process, handler, background, nextId, requests, deletes, extract>>

(* PASO 6, lines 177-194: the system prompt and the recent turns *)
AssemblePrompt ==
    /\ rt.pc = "assemble"
    /\ \E F \in FaultSets({"redis"}), intent \in Intents :
         LET system_prompt_parts == << <<"Eres Quimera">>, _translate_directives_to_prompt(intent),
                                       rt.final_context, <<"Responde">> >>
         IN /\ faults' = faults + Cardinality(F)
            /\ rt' = [rt EXCEPT !.intent = intent,
                                !.system_prompt = JoinLines(FilterNone(system_prompt_parts)),
                                !.history = get_recent_turns(buffer[rt.session_id], HistoryTurns, "redis" \notin F),
                                !.failed = @ \cup F,
                                !.pc = "done"]
    /\ UNCHANGED <<stores, process, handler, background, nextId, requests, deletes, extract>>

(* ----------------------- the settings endpoints ------------------------ *)
(* GET /v1/settings (main.py:171-176): get_current_llm_settings,           *)
(* orchestrator.py:252-253                                                 *)
get_current_llm_settings == llm_config

GetSettings ==
    /\ pc = "idle"
    /\ result' = [NoResult EXCEPT !.kind = "settings", !.llm_settings = get_current_llm_settings]
    /\ UNCHANGED <<stores, process, pc, req, api_history, response, background, counters, extract, rt>>

(* POST /v1/settings (main.py:158-169): the endpoint reads                 *)
(* settings.max_output_tokens, a field LLMSettings does not have           *)
(* (orchestrator.py:13-17), so the AttributeError leaves it before         *)
(* update_llm_settings is called                                           *)
UpdateSettings(settings) ==
    /\ pc = "idle"
    /\ result' = [NoResult EXCEPT !.kind = "raised", !.llm_settings = settings]
    /\ UNCHANGED <<stores, process, pc, req, api_history, response, background, counters, extract, rt>>

(* -------------------- ApiManager.get_provider, called ------------------ *)
ProviderNames == {"openai", "gemini", "nope"}
ModelNames == {"gpt-4o-mini", "gpt-3.5-turbo"}

(* one call of get_provider(provider_name, model=model_name); the          *)
(* constructor of the provider class may raise when it is reached          *)
ApiGetProvider(provider_name, model_name) ==
    /\ pc = "idle"
    /\ requests < MaxCalls
    /\ requests' = requests + 1
    /\ \E F \in FaultSets({"instantiate"}) :
         LET got == get_provider_instance(loaded_instances, provider_name, model_name, "instantiate" \notin F)
         IN /\ F # {} => (get_provider(provider_name) /\ Cached(loaded_instances, provider_name, model_name) = {})
            /\ faults' = faults + Cardinality(F)
            /\ loaded_instances' = got.loaded_instances
            /\ result' = [NoResult EXCEPT !.kind = "provider", !.key = <<provider_name, model_name>>,
                                          !.instance = got.instance, !.failed = F]
    /\ UNCHANGED <<stores, providers, llm_config, pc, req, api_history, response, background,
                   nextId, deletes, extract, rt>>

(* ------------------------------ Spec ----------------------------------- *)
(* Spec: the requests, with a model that may ask for tools.  The           *)
(* summarizer runs a request dispatches stay queued.                       *)
Next ==
    \/ \E s \in Sessions, settings \in Settings : HandleUserRequest(s, UserPrompt, settings, MaxRequests)
    \/ BuildAugmentedPrompt(AllOps)
    \/ GetProvider
    \/ CallModel(FinalReplies \cup ToolReplies, AllOps)
    \/ ExecuteTool(AllOps)
    \/ SaveUserTurn(AllOps)
    \/ SaveAssistantTurn(AllOps)
    \/ CheckAndReturn(AllOps)

Spec == Init /\ [][Next]_vars

(* SpecMemory: requests whose model answers at once, the summarizer runs   *)
(* in the thread pool, and session deletions.  The backends fail under the *)
(* summarizer only.                                                        *)
NextMemory ==
    \/ \E s \in Sessions : HandleUserRequest(s, UserPrompt, DefaultConfig, MaxRequests)
    \/ BuildAugmentedPrompt({})
    \/ GetProvider
    \/ CallModel(FinalReplies, {})
    \/ SaveUserTurn({})
    \/ SaveAssistantTurn({})
    \/ CheckAndReturn({})
    \/ \E i \in 1..MaxRequests : SumRead(i)
    \/ \E i \in 1..MaxRequests : SumModel(i)
    \/ \E i \in 1..MaxRequests : SumUpdate(i)
    \/ \E i \in 1..MaxRequests : SumTrim(i)
    \/ \E s \in Sessions : DeleteSession(s, {})

SpecMemory == Init /\ [][NextMemory]_vars

(* SpecDelete: requests whose model answers at once, and session deletions *)
(* under which the backends fail.                                          *)
NextDelete ==
    \/ \E s \in Sessions : HandleUserRequest(s, UserPrompt, DefaultConfig, MaxRequests)
    \/ BuildAugmentedPrompt({})
    \/ GetProvider
    \/ CallModel(FinalReplies, {})
    \/ SaveUserTurn({})
    \/ SaveAssistantTurn({})
    \/ CheckAndReturn({})
    \/ \E s \in Sessions : DeleteSession(s, AllOps)

SpecDelete == Init /\ [][NextDelete]_vars

(* SpecExtract: one entity-extraction call on any reply *)
InitExtract ==
    /\ InitStores
    /\ providers \in { {"openai"}, {} }
    /\ loaded_instances = {}
    /\ llm_config = DefaultConfig
    /\ InitHandler
    /\ tasks = <<>>
    /\ lastRun = NoRun
    /\ InitCounters
    /\ ex_reply \in Replies
    /\ ex_out = NoOutcome
    /\ rt = NoRetrieval

NextExtract == ExtractEntities

SpecExtract == InitExtract /\ [][NextExtract]_vars

(* SpecTools: the requests of one session, every backend answering, with   *)
(* a model that may ask for several tools in one round.                    *)
NextTools ==
    \/ HandleUserRequest("s1", UserPrompt, DefaultConfig, MaxRequests)
    \/ BuildAugmentedPrompt({})
    \/ GetProvider
    \/ CallModel(FinalReplies \cup ToolReplies \cup RoundReplies, {})
    \/ ExecuteTool({"plugin"})
    \/ SaveUserTurn({})
    \/ SaveAssistantTurn({})
    \/ CheckAndReturn({})

SpecTools == Init /\ [][NextTools]_vars

(* SpecRetrieve: one call of build_augmented_prompt, for session s1 or for *)
(* the empty session identifier, on every content of the stores it reads,  *)
(* with and without the graph manager, any backend failing under it.       *)
InitRetrieve ==
    /\ buffer = [s \in RequestSessions |-> IF s = "s1" THEN InitBuffer ELSE <<>>]
    /\ summary \in { [s \in RequestSessions |-> IF s = "s1" THEN row ELSE NoSummary] : row \in SummaryRows }
    /\ session_info = {"s1"}
    /\ chroma \in Collections
    /\ graph_sessions = {"s1"}
    /\ graph_messages = {}
    /\ providers \in { {"openai"}, {} }
    /\ loaded_instances = {}
    /\ llm_config = DefaultConfig
    /\ InitHandler
    /\ tasks = <<>>
    /\ lastRun = NoRun
    /\ InitCounters
    /\ ex_reply = NoReply
    /\ ex_out = NoOutcome
    /\ rt \in { [NoRetrieval EXCEPT !.pc = "summary", !.session_id = s, !.neo4j_manager = b] :
                    s \in {"s1", ""}, b \in BOOLEAN }

NextRetrieve ==
    \/ RetrieveSummary
    \/ RetrieveEntities
    \/ SearchSimilar
    \/ GetRelatedEntities
    \/ SynthesizeContext
    \/ AssemblePrompt

SpecRetrieve == InitRetrieve /\ [][NextRetrieve]_vars

(* SpecSettings: requests that carry any settings, every backend           *)
(* answering, and the two settings endpoints between them.                 *)
NextSettings ==
    \/ \E s \in Sessions, settings \in ModelSettings : HandleUserRequest(s, UserPrompt, settings, MaxRequests)
    \/ BuildAugmentedPrompt({})
    \/ GetProvider
    \/ CallModel(FinalReplies \cup ToolReplies, {})
    \/ ExecuteTool({})
    \/ SaveUserTurn({})
    \/ SaveAssistantTurn({})
    \/ CheckAndReturn({})
    \/ GetSettings
    \/ \E settings \in ModelSettings : UpdateSettings(settings)

SpecSettings == Init /\ [][NextSettings]_vars

(* SpecProviders: MaxCalls calls of ApiManager.get_provider, for any       *)
(* provider name and model, on any set of discovered provider classes.     *)
InitProviders ==
    /\ InitStores
    /\ providers \in { {"openai", "gemini"}, {"openai"}, {} }
    /\ loaded_instances = {}
    /\ llm_config = DefaultConfig
    /\ InitHandler
    /\ tasks = <<>>
    /\ lastRun = NoRun
    /\ InitCounters
    /\ ex_reply = NoReply
    /\ ex_out = NoOutcome
    /\ rt = NoRetrieval

NextProviders == \E provider_name \in ProviderNames, model_name \in ModelNames :
                    ApiGetProvider(provider_name, model_name)

SpecProviders == InitProviders /\ [][NextProviders]_vars

(* SpecConversation: the requests of one session with any prompt, every    *)
(* backend answering, with a model that may ask for tools.                 *)
NextConversation ==
    \/ \E user_prompt \in Prompts : HandleUserRequest("s1", user_prompt, DefaultConfig, MaxRequests)
    \/ BuildAugmentedPrompt({})
    \/ GetProvider
    \/ CallModel(FinalReplies \cup ToolReplies \cup EmailReplies, {})
    \/ ExecuteTool({})
    \/ SaveUserTurn({})
    \/ SaveAssistantTurn({})
    \/ CheckAndReturn({})

SpecConversation == Init /\ [][NextConversation]_vars

(* SpecSummarizer: the requests of one session whose model answers at      *)
(* once, and the summarizer runs they dispatch, under which the backends   *)
(* fail.  BackgroundTasks hands every run to the thread pool, which runs   *)
(* it to its end: the steps of the runs are weakly fair.                   *)
SummarizerStep ==
    \E i \in 1..MaxRequests : SumRead(i) \/ SumModel(i) \/ SumUpdate(i) \/ SumTrim(i)

NextSummarizer ==
    \/ HandleUserRequest("s1", UserPrompt, DefaultConfig, MaxRequests)
    \/ BuildAugmentedPrompt({})
    \/ GetProvider
    \/ CallModel(FinalReplies, {})
    \/ SaveUserTurn({})
    \/ SaveAssistantTurn({})
    \/ CheckAndReturn({})
    \/ SummarizerStep

SpecSummarizer == Init /\ [][NextSummarizer]_vars /\ WF_vars(SummarizerStep)

(* ============================ properties ================================ *)
TurnIn(buf, id) == \E k \in 1..Len(buf) : buf[k].id = id
LastTwo(buf) == SubSeq(buf, Max(1, Len(buf) - 1), Len(buf))

AllWrites == { "redis_user", "redis_assistant", "sqlite_user", "sqlite_assistant",
               "chroma_user", "chroma_assistant", "neo4j_user", "neo4j_assistant" }

C2_AllFourTiers == result.kind = "response" => result.persisted = AllWrites

(* C2, amended: a request that was answered appends both turns to the      *)
(* recent-turn buffer, adds the assistant turn alone to the similarity     *)
(* index and adds both turns to the graph when the session has its node    *)
(* there (neither otherwise); it never writes the relational store; a      *)
(* write whose store fails is skipped.  No store is written before         *)
(* ANSWERED.                                                               *)
C2_PersistedAfterAnswered ==
    [][ /\ summary' = summary /\ session_info' = session_info /\ graph_sessions' = graph_sessions
        /\ (buffer' # buffer \/ chroma' # chroma \/ graph_messages' # graph_messages)
           => pc \in {"ANSWERED", "save_assistant"}
        /\ (pc = "check" /\ result'.kind = "response")
           => LET s == result'.session_id
                  u == Turn("user", req.user_prompt, result'.user_turn_id)
                  a == Turn("assistant", result'.text, result'.assistant_turn_id)
                  w == result'.persisted
              IN /\ w \subseteq {"redis_user", "redis_assistant", "chroma_assistant", "neo4j_user", "neo4j_assistant"}
                 /\ "redis_user" \in w <=> TurnIn(buffer'[s], u.id)
                 /\ "redis_assistant" \in w <=> TurnIn(buffer'[s], a.id)
                 /\ "chroma_assistant" \in w <=> Document(s, a.content, "assistant", a.id) \in chroma'
                 /\ \A d \in chroma' : d.id # u.id
                 /\ "neo4j_user" \in w <=> Message(s, "user", u.content, u.id) \in graph_messages'
                 /\ "neo4j_assistant" \in w <=> Message(s, "assistant", a.content, a.id) \in graph_messages'
                 /\ faults' = 0 =>
                      /\ LastTwo(buffer'[s]) = <<u, a>>
                      /\ w = {"redis_user", "redis_assistant", "chroma_assistant"}
                             \cup (IF s \in graph_sessions THEN {"neo4j_user", "neo4j_assistant"} ELSE {})
      ]_vars

(* a request answered after a tool round, every store accepting its writes *)
C2_Witness ==
    /\ result.kind = "response"
    /\ result.rounds > 1
    /\ faults = 0
    /\ result.persisted = {"redis_user", "redis_assistant", "chroma_assistant", "neo4j_user", "neo4j_assistant"}

(* --- the summarizer runs ------------------------------------------------ *)
(* the run t as it is after the step: still in the list, or just finished  *)
After(t) ==
    IF \E j \in 1..Len(tasks') : tasks'[j].id = t.id
    THEN tasks'[CHOOSE j \in 1..Len(tasks') : tasks'[j].id = t.id]
    ELSE lastRun'

(* the step is a step of run t *)
Stepped(t) == After(t).pc # t.pc

Elements(seq) == { seq[k] : k \in 1..Len(seq) }

(* C3: a summarizer run that finds at most KeepTurns turns changes neither *)
(* the buffer nor the stored summary; a successful run on a longer buffer, *)
(* not interleaved with another writer of the session, leaves exactly      *)
(* KeepTurns turns and a watermark equal to the length it read.            *)
C3_NoopOrTen ==
    [][ \A i \in 1..Len(tasks) :
          LET t == tasks[i]
              t2 == After(t)
              s == t.session_id
          IN Stepped(t) =>
               /\ (t.pc = "read" /\ Len(buffer[s]) <= KeepTurns)
                  => (t2.pc = "done" /\ t2.outcome = "noop" /\ buffer' = buffer /\ summary' = summary)
               /\ (t.pc = "read" /\ t2.pc = "model")
                  => (Len(t2.all_turns) = Len(buffer[s]) /\ buffer' = buffer /\ summary' = summary)
               /\ (t2.pc = "done" /\ t2.outcome = "success" /\ t2.alone)
                  => /\ Len(t2.all_turns) > KeepTurns
                     /\ Len(buffer'[s]) = KeepTurns
                     /\ summary'[s].present
                     /\ summary'[s].turn_count = Len(t2.all_turns)
      ]_vars

(* a run that read 12 turns ended successfully *)
C3_Witness ==
    /\ lastRun.pc = "done" /\ lastRun.outcome = "success" /\ lastRun.alone
    /\ Len(lastRun.all_turns) = KeepTurns + 2
    /\ Len(buffer[lastRun.session_id]) = KeepTurns
    /\ summary[lastRun.session_id].turn_count = KeepTurns + 2

(* C4: of the n > KeepTurns turns read, the run condenses the first        *)
(* n - KeepTurns, in order; after a successful run, not interleaved with   *)
(* another writer of the session, the buffer is the last KeepTurns of the  *)
(* n turns, unchanged and in order.                                        *)
C4_FirstCondensedLastKept ==
    [][ \A i \in 1..Len(tasks) :
          LET t == tasks[i]
              t2 == After(t)
              s == t.session_id
              n == Len(t2.all_turns)
          IN Stepped(t) =>
               /\ (t.pc = "read" /\ t2.pc = "model") => t2.all_turns = buffer[s]
               /\ (t.pc = "model" /\ t2.pc = "update")
                  => /\ n > KeepTurns
                     /\ t2.turns_to_summarize = [k \in 1..(n - KeepTurns) |-> t.all_turns[k]]
               /\ (t2.pc = "done" /\ t2.outcome = "success" /\ t2.alone)
                  => buffer'[s] = [k \in 1..KeepTurns |-> t2.all_turns[n - KeepTurns + k]]
      ]_vars

(* a run on 14 turns condensed the first 4 and left the last 10 *)
C4_Witness ==
    /\ lastRun.pc = "done" /\ lastRun.outcome = "success" /\ lastRun.alone
    /\ Len(lastRun.all_turns) = KeepTurns + 4
    /\ lastRun.turns_to_summarize = SubSeq(lastRun.all_turns, 1, 4)
    /\ buffer[lastRun.session_id] = SubSeq(lastRun.all_turns, 5, KeepTurns + 4)

(* C5, as stated: a run whose model call failed changes neither the stored *)
(* summary nor the buffer.                                                 *)
C5_NoMutationOnModelFailure ==
    [][ \A i \in 1..Len(tasks) :
          (Stepped(tasks[i]) /\ tasks[i].model_failed) => (buffer' = buffer /\ summary' = summary)
      ]_vars

(* C6, as stated: the watermark stored for a session never decreases from  *)
(* one stored value to the next.                                           *)
C6_WatermarkNeverDecreases ==
    [][ \A s \in Sessions :
          (summary[s].present /\ summary'[s].present) => summary'[s].turn_count >= summary[s].turn_count
      ]_vars

(* C7: the truncate removes the turns before the last KeepTurns of the     *)
(* buffer as it is then; it removes a turn that was not condensed only in  *)
(* a run that another writer of the session's buffer interleaved with,     *)
(* between the read and the truncate, and such a run is reachable.         *)
C7_TruncateRacesWithAppends ==
    [][ \A i \in 1..Len(tasks) :
          LET t == tasks[i]
              t2 == After(t)
              s == t.session_id
          IN (Stepped(t) /\ t.pc = "trim") =>
               /\ buffer[s] = t2.removed \o buffer'[s]
               /\ t2.trimmed => Len(buffer'[s]) <= KeepTurns
               /\ (\E x \in Elements(t2.removed) : x \notin Elements(t.turns_to_summarize)) => ~ t2.alone
      ]_vars

(* a run that read the buffer, then a request appended two turns, then the *)
(* truncate removed turns the run had not condensed                        *)
C7_Witness ==
    /\ lastRun.pc = "done" /\ lastRun.trimmed /\ lastRun.stored
    /\ \E x \in Elements(lastRun.removed) : x \notin Elements(lastRun.turns_to_summarize)
    /\ \E y \in Elements(buffer[lastRun.session_id]) : y \notin Elements(lastRun.all_turns)

(* C8, as stated: delete_session_data answers True only if the deletion in *)
(* each of the four stores succeeded, and False if any of them failed.     *)
C8_TrueOnlyIfAllDeleted ==
    result.kind = "delete" => (result.text = "True" <=> result.failed = {})

(* C9, as stated: when delete_session_data answers True for a session, no  *)
(* store holds anything of that session, and what the stores hold of the   *)
(* other sessions is unchanged.                                            *)
C9_DeleteCascades ==
    [][ (deletes' = deletes + 1 /\ result'.text = "True") =>
          LET s == result'.session_id
          IN /\ buffer'[s] = <<>>
             /\ s \notin session_info' /\ ~ summary'[s].present
             /\ \A d \in chroma' : d.session_id # s
             /\ s \notin graph_sessions' /\ \A m \in graph_messages' : m.session_id # s
             /\ \A o \in Sessions \ {s} :
                  /\ buffer'[o] = buffer[o] /\ summary'[o] = summary[o]
                  /\ (o \in session_info') = (o \in session_info)
                  /\ (o \in graph_sessions') = (o \in graph_sessions)
                  /\ { d \in chroma' : d.session_id = o } = { d \in chroma : d.session_id = o }
                  /\ { m \in graph_messages' : m.session_id = o } = { m \in graph_messages : m.session_id = o }
      ]_vars

(* --- entity extraction -------------------------------------------------- *)
(* without the whitespace of JSON *)
Core(c) == SelectSeq(c, LAMBDA x : x \notin JsonSpace)

(* the text is a JSON array of strings: "[", then nothing or strings       *)
(* separated by commas, then "]", with whitespace of JSON anywhere between *)
ValidStringArray(c) ==
    LET k == Core(c)
        n == Len(k)
    IN /\ n >= 2 /\ k[1] = "[" /\ k[n] = "]"
       /\ n > 2 => n % 2 = 1
       /\ \A i \in 2..(n - 1) : IF i % 2 = 0 THEN k[i] \in StringTokens ELSE k[i] = ","

StringsOf(c) == SelectSeq(c, LAMBDA x : x \in StringTokens)

(* C10, as stated: a reply that is not a JSON array of strings, a failed   *)
(* call and a missing provider all give the empty sequence, and the call   *)
(* never raises.                                                           *)
C10_EmptyUnlessValidArray ==
    ex_out.done =>
        /\ ~ ex_out.raised
        /\ ~ (get_provider("openai") /\ ex_reply.kind = "text" /\ ValidStringArray(ex_reply.tokens))
              => ex_out.entities = <<>>

(* C10, amended: the same of the reply with the whitespace around it       *)
(* removed as str.strip() removes it; and a reply that then is a JSON      *)
(* array of strings gives its strings, in order.                           *)
C10_EmptyUnlessValidAfterStrip ==
    ex_out.done =>
        /\ ~ ex_out.raised
        /\ IF get_provider("openai") /\ ex_reply.kind = "text" /\ ValidStringArray(Strip(ex_reply.tokens))
           THEN ex_out.entities = StringsOf(ex_reply.tokens)
           ELSE ex_out.entities = <<>>

(* an array with an element that is no string gave the empty sequence *)
C10_Witness ==
    /\ ex_out.done /\ get_provider("openai")
    /\ ex_reply = [kind |-> "text", tokens |-> <<"[", "a", ",", "n", "]">>]
    /\ ex_out.entities = <<>>

(* --- context retrieval -------------------------------------------------- *)
QueriesOf(tier) == SelectSeq(rt.queries, LAMBDA q : q.tier = tier)

(* the retrieval is over: every tier was asked that will be *)
Retrieved == rt.pc \in {"dedup", "assemble", "done"}
Synthesis == rt.pc \in {"assemble", "done"}

StoredSummary == summary[rt.session_id].present /\ summary[rt.session_id].summary # <<>>

(* C11, as stated: when a memory tier fails during context retrieval       *)
(* (the rolling-summary store, the similarity index or the graph), the     *)
(* retrieval does not abort; the other tiers are still queried, once for   *)
(* the summary and once per entity, and what they hold is included.        *)
C11_TierFailureIsolated ==
    /\ rt.pc # "raised"
    /\ Retrieved =>
         /\ Len(QueriesOf("summary")) = 1
         /\ ("sqlite_exec" \notin rt.failed /\ StoredSummary)
            => (rt.relevant_context_snippets # <<>>
                /\ rt.relevant_context_snippets[1] = summary[rt.session_id].summary)
         /\ ShouldSearch(rt.entity_names)
            => /\ Len(QueriesOf("chroma")) = Len(rt.entity_names)
               /\ rt.neo4j_manager => Len(QueriesOf("neo4j")) = Len(rt.entity_names)
         /\ "chroma" \notin rt.failed
            => \A i \in 1..Len(QueriesOf("chroma")) :
                 LET q == QueriesOf("chroma")[i]
                 IN Len(q.hits) = Min(5, Cardinality(InScope(chroma, rt.session_id)))

(* C12, as stated: no request ends with an exception raised to its caller  *)
(* because a memory tier or an auxiliary model call failed under it, at    *)
(* any step up to the buffer-length check; it returns a response.          *)
C12_BackendFailureNeverSurfaced ==
    result.kind = "raised" => result.failed = {}

(* C13, as stated: when the call of the main model fails, in the first     *)
(* round or in a later one, the request is answered with the generic       *)
(* fallback answer and raises nothing.                                     *)
C13_FallbackOnModelFailure ==
    [][ (pc = "AWAITING_MODEL" /\ faults' > faults)
          => (pc' = "ANSWERED" /\ req'.final_response_text = FallbackText)
      ]_vars

(* C14: when the extraction gives no entity, build_augmented_prompt asks   *)
(* neither the similarity index nor the graph, and it has asked the        *)
(* rolling-summary store once for the session.                             *)
C14_NoEntitiesNoLongTermQueries ==
    (Retrieved /\ rt.entity_names = <<>>) =>
        /\ Len(QueriesOf("chroma")) = 0
        /\ Len(QueriesOf("neo4j")) = 0
        /\ Len(QueriesOf("summary")) = 1
        /\ ("sqlite_exec" \notin rt.failed /\ StoredSummary)
           => rt.relevant_context_snippets = <<summary[rt.session_id].summary>>

(* no entity, documents in the index, the summary as the only snippet *)
C14_Witness ==
    /\ rt.pc = "done"
    /\ rt.extract_reply = [kind |-> "text", tokens |-> <<"[", "]">>]
    /\ rt.entity_names = <<>>
    /\ Cardinality(chroma) > NResults
    /\ rt.neo4j_manager
    /\ rt.relevant_context_snippets = <<Text(2, "x")>>

(* C15: the synthesis of no snippet is the empty text and sends no request *)
(* to the model, whatever the model would answer; a request with no stored *)
(* summary and no hit makes no synthesis call.                             *)
C15_EmptySnippetsNoSynthesisCall ==
    /\ \A reply \in {SynthReply, ErrorReply, NoneReply} :
         _synthesize_context_with_gpt(<<>>, reply) = Synthesized(<<>>, 0)
    /\ (Synthesis /\ rt.unique_snippets = <<>>)
       => (rt.synth_calls = 0 /\ rt.synthesized_context = <<>> /\ rt.final_context = <<>>)
    /\ (Synthesis /\ ~ StoredSummary /\ \A i \in 1..Len(rt.queries) : rt.queries[i].hits = <<>>)
       => rt.synth_calls = 0

(* entities were found and every tier was asked, nothing came back: no     *)
(* synthesis call though the provider is there                             *)
C15_Witness ==
    /\ rt.pc = "done"
    /\ get_provider("openai")
    /\ rt.entity_names = <<"a", "b">>
    /\ Len(rt.queries) = 5
    /\ ~ StoredSummary
    /\ rt.unique_snippets = <<>>
    /\ rt.synth_calls = 0

(* C16, as stated: when the synthesis call fails on a non-empty snippet    *)
(* list, the synthesized context is the empty text: no text describing the *)
(* failure becomes context, and nothing is raised.                         *)
C16_SynthesisFailureGivesEmpty ==
    (Synthesis /\ rt.synth_reply.kind \in {"error", "none"}) =>
        (rt.synthesized_context = <<>> /\ rt.final_context = <<>>)

FirstIndex(xs, x) == CHOOSE i \in 1..Len(xs) : xs[i] = x /\ \A j \in 1..(i - 1) : xs[j] # x

(* C17: the list handed to the synthesizer holds every distinct text of    *)
(* the candidate list once, in the order of the first occurrences, and     *)
(* removing the duplicates again changes nothing.                          *)
C17_DedupFirstOccurrence ==
    Synthesis =>
        LET xs == rt.relevant_context_snippets
            u == rt.unique_snippets
        IN /\ \A i, j \in 1..Len(u) : i # j => u[i] # u[j]
           /\ Elements(u) = Elements(xs)
           /\ \A i, j \in 1..Len(u) : i < j => FirstIndex(xs, u[i]) < FirstIndex(xs, u[j])
           /\ UniqueSnippets(UniqueSnippets(xs)) = UniqueSnippets(xs)
           /\ UniqueSnippets(u) = u

(* ten hits for two entities, the same documents twice, and two of them    *)
(* with the same text: four distinct snippets                              *)
C17_Witness ==
    /\ rt.pc = "done"
    /\ Len(rt.relevant_context_snippets) >= 2 * NResults
    /\ Len(rt.unique_snippets) = 4
    /\ rt.synth_calls = 1

(* C18: a hit of more than 300 characters enters the candidate list as its *)
(* first 300 characters followed by the ellipsis; a hit of 300 characters  *)
(* or fewer enters unchanged.                                              *)
C18_TruncatedTo300 ==
    [][ (rt.pc = "chroma" /\ rt' # rt) =>
          LET q == rt'.queries[Len(rt'.queries)]
              before == Len(rt.relevant_context_snippets)
              added == SubSeq(rt'.relevant_context_snippets, before + 1, Len(rt'.relevant_context_snippets))
          IN /\ SubSeq(rt'.relevant_context_snippets, 1, before) = rt.relevant_context_snippets
             /\ Len(added) = Len(q.hits)
             /\ \A i \in 1..Len(q.hits) :
                  LET doc == q.hits[i]
                      snippet == added[i]
                  IN IF Len(doc) > 300
                     THEN /\ Len(snippet) = 303
                          /\ \A c \in 1..300 : snippet[c] = doc[c]
                          /\ <<snippet[301], snippet[302], snippet[303]>> = Ellipsis
                     ELSE snippet = doc
      ]_vars

(* a document of MaxChars characters went in as 300 characters and the     *)
(* ellipsis, one of 300 characters as it is                                *)
C18_Witness ==
    /\ \E i \in 1..Len(rt.queries) : \E h \in 1..Len(rt.queries[i].hits) :
         Len(rt.queries[i].hits[h]) = MaxChars
    /\ \E i \in 1..Len(rt.relevant_context_snippets) :
         rt.relevant_context_snippets[i] = Text(300, "x") \o Ellipsis
    /\ \E i \in 1..Len(rt.relevant_context_snippets) :
         rt.relevant_context_snippets[i] = Text(300, "x")

(* C19: a reply that is a JSON array of strings gives those strings, in    *)
(* order; the retrieval issues one similarity query per entity, in that    *)
(* order, each for at most 5 hits and each answered with at most 5.        *)
C19_OneQueryPerEntity ==
    Retrieved =>
        /\ (get_provider("openai") /\ rt.extract_reply.kind = "text"
            /\ ValidStringArray(Strip(rt.extract_reply.tokens)))
           => rt.entity_names = StringsOf(rt.extract_reply.tokens)
        /\ LET qs == QueriesOf("chroma")
           IN /\ Len(qs) = Len(rt.entity_names)
              /\ \A i \in 1..Len(qs) :
                   /\ qs[i].entity_name = rt.entity_names[i]
                   /\ qs[i].n_results <= 5
                   /\ Len(qs[i].hits) <= 5

(* three entities, three queries, five of the six documents each *)
C19_Witness ==
    /\ rt.pc = "done"
    /\ rt.entity_names = <<"a", "b", "a">>
    /\ Len(QueriesOf("chroma")) = 3
    /\ \A i \in 1..3 : Len(QueriesOf("chroma")[i].hits) = 5

(* --- the tool round ----------------------------------------------------- *)
LastAssistant(history) ==
    CHOOSE k \in 1..Len(history) :
        /\ history[k].role = "assistant"
        /\ \A j \in (k + 1)..Len(history) : history[j].role # "assistant"

(* C20: in a tool round the assistant message with the tool calls is in    *)
(* the conversation state before any result; after it come the results of  *)
(* the invocations executed so far, one per invocation whose tool has a    *)
(* plugin, in the order of the invocations, each with the identifier and   *)
(* the name of its call.                                                   *)
C20_ToolResultsInInvocationOrder ==
    (pc \in {"EXECUTING_TOOLS", "AWAITING_MODEL"} /\ req.mainCalls > 0) =>
        /\ \E k \in 1..Len(api_history) : api_history[k].role = "assistant"
        /\ LET a == LastAssistant(api_history)
               results == SubSeq(api_history, a + 1, Len(api_history))
               executed == SelectSeq(SubSeq(response.tool_calls, 1, req.idx - 1),
                                     LAMBDA c : \E p \in DOMAIN Plugins : c.name \in Plugins[p])
           IN /\ api_history[a].name = "tool_calls"
              /\ Len(results) = Len(executed)
              /\ \A i \in 1..Len(results) :
                   /\ results[i].role = "tool"
                   /\ results[i].tool_call_id = executed[i].id
                   /\ results[i].name = executed[i].name

(* a round of three invocations, the second one skipped: the results of    *)
(* the first and of the third follow the assistant message, in that order  *)
C20_Witness ==
    /\ pc = "AWAITING_MODEL"
    /\ Len(response.tool_calls) = 3
    /\ Len(api_history) >= 3
    /\ LET n == Len(api_history)
       IN /\ api_history[n - 2].role = "assistant"
          /\ api_history[n - 1].role = "tool" /\ api_history[n - 1].tool_call_id = 1
          /\ api_history[n].role = "tool" /\ api_history[n].tool_call_id = 3

(* the registry has a plugin that declares the tool *)
Resolves(tool_name) == \E p \in DOMAIN Plugins : tool_name \in Plugins[p]

(* C21: an invocation whose tool no plugin of the registry declares is     *)
(* skipped: nothing is executed for it and nothing enters the conversation *)
(* state, the request is not aborted, and the loop goes on with the next   *)
(* invocation of the round; it goes back to AWAITING_MODEL only after the  *)
(* last invocation of the round was processed.                             *)
C21_UnresolvedToolSkipped ==
    [][ pc = "EXECUTING_TOOLS" =>
          LET tool_call == response.tool_calls[req.idx]
              last == req.idx = Len(response.tool_calls)
          IN /\ ~ Resolves(tool_call.name)
                => /\ api_history' = api_history
                   /\ req'.toolExecs = req.toolExecs
                   /\ req'.idx = req.idx + 1
                   /\ response' = response
                   /\ result' = result
                   /\ pc' = IF last THEN "AWAITING_MODEL" ELSE "EXECUTING_TOOLS"
             /\ pc' = "AWAITING_MODEL" => (last /\ req'.idx = Len(response.tool_calls) + 1)
      ]_vars

(* a round of three invocations is over: the second was skipped, the first *)
(* and the third were executed                                             *)
C21_Witness ==
    /\ pc = "AWAITING_MODEL"
    /\ Len(response.tool_calls) = 3
    /\ ~ Resolves(response.tool_calls[2].name)
    /\ req.idx = 4
    /\ req.toolExecs = 2

(* C22: an invocation whose arguments are no JSON text is executed all the *)
(* same, with the empty argument set: what the plugin answers to no        *)
(* argument enters the conversation state as the result of the call, and   *)
(* the request goes on.                                                    *)
C22_UnparseableArgumentsGiveEmptySet ==
    [][ ( /\ pc = "EXECUTING_TOOLS"
          /\ response.tool_calls[req.idx].arguments = "bad"
          /\ Resolves(response.tool_calls[req.idx].name) )
        => LET tool_call == response.tool_calls[req.idx]
               plugin_name == CHOOSE p \in DOMAIN Plugins : tool_call.name \in Plugins[p]
           IN /\ pc' \in {"EXECUTING_TOOLS", "AWAITING_MODEL"}
              /\ result' = result
              /\ req'.toolExecs = req.toolExecs + 1
              /\ req'.idx = req.idx + 1
              /\ Len(api_history') = Len(api_history) + 1
              /\ SubSeq(api_history', 1, Len(api_history)) = api_history
              /\ LET m == api_history'[Len(api_history')]
                 IN /\ m.role = "tool" /\ m.tool_call_id = tool_call.id /\ m.name = tool_call.name
                    /\ m.content \in execute_tool(plugin_name, tool_call.name, "empty")
      ]_vars

(* send_email was called with arguments that are no JSON: the plugin       *)
(* answered as it does to no argument, and the model was asked again       *)
C22_Witness ==
    /\ pc = "ANSWERED"
    /\ req.mainCalls = 2
    /\ Len(api_history) >= 2
    /\ LET m == api_history[Len(api_history)]
       IN m.role = "tool" /\ m.name = "send_email" /\ m.content = "error"

(* C23: the loop test looks at the response only, never at the number of   *)
(* rounds: after any number of rounds a response that asks for a tool      *)
(* starts another round, and ANSWERED is entered on a response that asks   *)
(* for none; as long as the request is in the loop it has returned nothing *)
(* to its caller and has written to no store.                              *)
C23_NoRoundLimit ==
    [][ /\ (pc = "AWAITING_MODEL" /\ req'.mainCalls = req.mainCalls + 1)
           => IF response'.tool_calls # <<>>
              THEN pc' = "EXECUTING_TOOLS" /\ req'.final_response_text = ""
              ELSE pc' = "ANSWERED"
        /\ pc \in {"AWAITING_MODEL", "EXECUTING_TOOLS"}
           => /\ stores' = stores
              /\ tasks' = tasks
              /\ result'.kind # "response"
              /\ pc' = "idle" => result'.kind = "raised"
      ]_vars

(* the model asked for a tool in each of its MaxRounds responses: the      *)
(* request is still in the loop, nothing returned and nothing written      *)
C23_Witness ==
    /\ pc = "EXECUTING_TOOLS"
    /\ req.mainCalls = MaxRounds
    /\ requests = 1
    /\ result = NoResult
    /\ buffer["s1"] = InitBuffer

(* C24: a request that returns its response does so after its turns were   *)
(* written, and hands one summarizer run to the background tasks exactly   *)
(* when the buffer of its session then holds more than 10 turns; no other  *)
(* step of a request adds a run.  The run has not started when the         *)
(* response is returned, and no step of a run, failing or not, changes     *)
(* what the caller was given.                                              *)
C24_DispatchFireAndForget ==
    [][ /\ (pc = "check" /\ result'.kind = "response")
           => LET s == result'.session_id
              IN /\ stores' = stores
                 /\ result'.text = req.final_response_text
                 /\ result'.persisted = req.persisted
                 /\ IF Len(buffer[s]) > 10
                    THEN /\ result'.dispatched
                         /\ Len(tasks') = Len(tasks) + 1
                         /\ SubSeq(tasks', 1, Len(tasks)) = tasks
                         /\ tasks'[Len(tasks')].session_id = s
                         /\ tasks'[Len(tasks')].pc = "read"
                    ELSE ~ result'.dispatched /\ tasks' = tasks
        /\ (pc # "check" \/ result'.kind # "response") => Len(tasks') <= Len(tasks)
        /\ \A i \in 1..Len(tasks) : Stepped(tasks[i]) => handler' = handler
      ]_vars

(* the first request was answered and dispatched a run; the run failed     *)
(* afterwards, and the caller still has the answer                         *)
C24_Witness ==
    /\ requests = 1 /\ pc = "idle"
    /\ result.kind = "response" /\ result.text = "answer" /\ result.dispatched
    /\ lastRun.pc = "done" /\ lastRun.id = 1 /\ lastRun.outcome \in {"failed", "raised"}
    /\ lastRun.session_id = result.session_id

(* --- the provider cache ------------------------------------------------- *)
(* C25: the cache holds one entry per (provider, model) key, of a          *)
(* discovered provider; no step removes an entry or puts another instance  *)
(* under its key.  A call for a key in the cache returns the instance      *)
(* stored there and leaves the cache as it is; a call that returns no      *)
(* instance (unknown provider, constructor raising) leaves the cache as it *)
(* is; a call that creates an instance stores it under its key.            *)
C25_ProviderCacheAppendOnly ==
    [][ /\ loaded_instances \subseteq loaded_instances'
        /\ \A e1, e2 \in loaded_instances' :
             (e1.provider_name = e2.provider_name /\ e1.model_name = e2.model_name) => e1 = e2
        /\ \A e \in loaded_instances' : e.provider_name \in providers /\ e.instance # 0
        /\ (requests' = requests + 1 /\ result'.kind = "provider")
           => LET provider_name == result'.key[1]
                  model_name == result'.key[2]
                  before == Cached(loaded_instances, provider_name, model_name)
              IN /\ before # {}
                    => (Entry(provider_name, model_name, result'.instance) \in before
                        /\ loaded_instances' = loaded_instances)
                 /\ (provider_name \notin providers \/ result'.failed # {}) => result'.instance = 0
                 /\ result'.instance = 0 => loaded_instances' = loaded_instances
                 /\ (result'.instance # 0 /\ before = {})
                    => loaded_instances' = loaded_instances \cup {Entry(provider_name, model_name, result'.instance)}
      ]_vars

(* the constructor raised for a key, a later call created the instance,    *)
(* and the call after that got the same instance from the cache            *)
C25_Witness ==
    /\ requests = 3 /\ faults = 1
    /\ result.kind = "provider" /\ result.instance = 1 /\ result.failed = {}
    /\ loaded_instances = {Entry(result.key[1], result.key[2], 1)}

(* --- the process-wide settings ------------------------------------------ *)
(* C26: a request puts the settings it carries in place of the             *)
(* process-wide ones, all four of them, as its first step; the settings    *)
(* stay as they are after the request has ended, through every step that   *)
(* is not the start of a request, and get_current_llm_settings returns     *)
(* them.                                                                   *)
C26_RequestOverwritesSettings ==
    [][ /\ requests' = requests + 1
           => (req'.llm_settings \in ModelSettings /\ llm_config' = req'.llm_settings)
        /\ requests' = requests => llm_config' = llm_config
        /\ (pc # "idle" /\ pc' = "idle") => llm_config' = req.llm_settings
        /\ (result'.kind = "settings" /\ result' # result) => result'.llm_settings = llm_config
      ]_vars

(* a request that carried settings other than the default ones has ended,  *)
(* and the settings read afterwards are that request's                     *)
C26_Witness ==
    /\ requests = 1 /\ pc = "idle"
    /\ get_provider("openai")
    /\ result.kind = "settings"
    /\ result.llm_settings # DefaultConfig
    /\ result.llm_settings \in ModelSettings
    /\ llm_config = result.llm_settings

(* C27, as stated: whatever session identifier the request carries, the    *)
(* empty string included, the rolling summary taken into the context is    *)
(* the one stored for that session and every similarity hit is a document  *)
(* stored under that session.                                              *)
C27_RetrievalScopedToSession ==
    /\ (rt.pc \notin {"none", "summary", "raised"} /\ rt.relevant_context_snippets # <<>>
        /\ QueriesOf("chroma") = <<>> /\ QueriesOf("neo4j") = <<>>)
       => rt.relevant_context_snippets = <<summary[rt.session_id].summary>>
    /\ \A i \in 1..Len(rt.queries) :
         rt.queries[i].tier = "chroma"
         => \A h \in 1..Len(rt.queries[i].hits) :
              \E d \in chroma : d.session_id = rt.session_id /\ d.document = rt.queries[i].hits[h]

(* --- the recent-turn buffer --------------------------------------------- *)
IsSuffix(a, b) == Len(a) <= Len(b) /\ a = SubSeq(b, Len(b) - Len(a) + 1, Len(b))

(* C28: every step leaves the buffer of a session as it is, or appends one *)
(* newly created turn at its end, or leaves a suffix of it (all of it gone *)
(* on a deletion): the turns in the buffer are, unchanged and in the order *)
(* of their creation, the last of the turns appended to the session since  *)
(* its last deletion.                                                      *)
C28_BufferIsSuffixOfAppended ==
    [][ \A s \in Sessions :
          /\ \/ buffer'[s] = buffer[s]
             \/ /\ Len(buffer'[s]) = Len(buffer[s]) + 1
                /\ SubSeq(buffer'[s], 1, Len(buffer[s])) = buffer[s]
                /\ buffer'[s][Len(buffer'[s])].id > 2 * InitRequests
             \/ IsSuffix(buffer'[s], buffer[s])
          /\ \A i \in 1..(Len(buffer'[s]) - 1) : buffer'[s][i].id < buffer'[s][i + 1].id
      ]_vars

(* the first two turns of s1 were removed by a run, and a later request    *)
(* appended its two turns after the ten that were kept                     *)
C28_Witness ==
    /\ Len(buffer["s1"]) = KeepTurns + 2
    /\ buffer["s1"][1].id = 3
    /\ buffer["s1"][KeepTurns + 2].id = nextId - 1
    /\ \A i \in 1..KeepTurns : buffer["s1"][i] = InitTurn(i + 2)

(* --- the candidate list and the system prompt --------------------------- *)
Snippet(doc) == IF Len(doc) > 300 THEN SubSeq(doc, 1, 300) \o Ellipsis ELSE doc

(* the hits of the queries qs as snippets, query after query *)
RECURSIVE HitSnippets(_)
HitSnippets(qs) ==
    IF qs = <<>> THEN <<>>
    ELSE [h \in 1..Len(qs[1].hits) |-> Snippet(qs[1].hits[h])] \o HitSnippets(Tail(qs))

(* one sentence for each graph query of qs that found related terms, with  *)
(* a blank between two sentences                                           *)
RECURSIVE Sentences(_)
Sentences(qs) ==
    IF qs = <<>> THEN <<>>
    ELSE LET rest == Sentences(Tail(qs))
             sentence == <<"Sobre", qs[1].entity_name>> \o qs[1].hits \o <<".">>
         IN IF qs[1].hits = <<>> THEN rest
            ELSE IF rest = <<>> THEN sentence
            ELSE sentence \o <<" ">> \o rest

(* C29: the candidate list is the stored summary, when its text is not     *)
(* empty and the store answered, whether or not an entity was extracted;   *)
(* then the hits of the similarity queries, entity after entity in the     *)
(* order of the entities; then, when at least one entity has related       *)
(* terms, one snippet that joins the sentences of those entities, and no   *)
(* graph snippet otherwise.                                                *)
C29_CandidateOrder ==
    Retrieved =>
        LET summary_part == IF "sqlite_exec" \notin rt.failed /\ StoredSummary
                            THEN <<summary[rt.session_id].summary>> ELSE <<>>
            graph_text == Sentences(QueriesOf("neo4j"))
            graph_part == IF graph_text = <<>> THEN <<>> ELSE <<graph_text>>
        IN /\ rt.relevant_context_snippets = summary_part \o HitSnippets(QueriesOf("chroma")) \o graph_part
           /\ \A i \in 1..Len(QueriesOf("chroma")) : QueriesOf("chroma")[i].entity_name = rt.entity_names[i]
           /\ \A i \in 1..Len(QueriesOf("neo4j")) : QueriesOf("neo4j")[i].entity_name = rt.entity_names[i]

(* a summary, hits for two entities and related terms for both: the        *)
(* summary, the hits, and one graph snippet with the two sentences         *)
C29_Witness ==
    /\ rt.pc = "done"
    /\ StoredSummary
    /\ rt.entity_names = <<"a", "b">>
    /\ Len(QueriesOf("neo4j")) = 2
    /\ \A i \in 1..Len(QueriesOf("neo4j")) : QueriesOf("neo4j")[i].hits # <<>>
    /\ \A i \in 1..Len(QueriesOf("chroma")) : Len(QueriesOf("chroma")[i].hits) = 2
    /\ Len(rt.relevant_context_snippets) = 1 + 4 + 1

(* C30: the system prompt is the preamble, the instruction of the intent,  *)
(* the context block and the closing instruction, each on a line of its    *)
(* own and with one newline between two of them; an intent that is not in  *)
(* the table, or no intent, gives no instruction line; an empty            *)
(* synthesized context gives no context block and no header; the preamble  *)
(* and the closing instruction are always there.                           *)
C30_SystemPromptAssembly ==
    rt.pc = "done" =>
        LET nl == <<"\n">>
            instruction == IF rt.intent = "pregunta conceptual o técnica" THEN <<"preciso">>
                           ELSE IF rt.intent = "broma o comentario humorístico" THEN <<"divertido">>
                           ELSE <<>>
            context == IF rt.synthesized_context = <<>> THEN <<>>
                       ELSE <<"CONTEXTO">> \o nl \o rt.synthesized_context
        IN rt.system_prompt =
               <<"Eres Quimera">>
               \o (IF instruction = <<>> THEN <<>> ELSE nl \o instruction)
               \o (IF context = <<>> THEN <<>> ELSE nl \o context)
               \o nl \o <<"Responde">>

(* an intent outside the table and no synthesized context, though there    *)
(* were snippets: the preamble and the closing instruction, one newline    *)
(* between them                                                            *)
C30_Witness ==
    /\ rt.pc = "done"
    /\ rt.intent = "otra"
    /\ rt.unique_snippets # <<>>
    /\ rt.synthesized_context = <<>>
    /\ rt.system_prompt = <<"Eres Quimera", "\n", "Responde">>

(* the conversation state a is a prefix of the conversation state b *)
IsPrefix(a, b) == Len(a) <= Len(b) /\ \A i \in 1..Len(a) : b[i] = a[i]

(* C31: in every round of a request the conversation state sent to the     *)
(* model starts with the assembled instruction, goes on with the (at most  *)
(* 10) most recent buffered turns of the session in append order and then  *)
(* with the current user prompt, which is there exactly once; tool-call    *)
(* messages and tool results come only after these, and between rounds the *)
(* state only grows at its end.                                            *)
C31_ConversationState ==
    [][ /\ (pc = "AWAITING_MODEL" /\ pc' # "idle") =>
            LET turns == buffer[req.session_id]
                n == Min(Len(turns), HistoryTurns)
            IN /\ Len(api_history') >= n + 2
               /\ api_history'[1] = SystemMessage
               /\ \A i \in 1..n :
                    api_history'[1 + i] = HistoryMessage(turns[Len(turns) - n + i].role,
                                                         turns[Len(turns) - n + i].content, 0, "")
               /\ api_history'[n + 2] = HistoryMessage("user", req.user_prompt, 0, "")
               /\ \A j \in (n + 3)..Len(api_history') : api_history'[j].role \in {"assistant", "tool"}
        /\ (pc \in {"AWAITING_MODEL", "EXECUTING_TOOLS"} /\ pc' # "idle") => IsPrefix(api_history, api_history')
      ]_vars

(* C32: every tool result in the conversation state carries the status     *)
(* success or the status error.                                            *)
C32_ToolStatusSuccessOrError ==
    \A i \in 1..Len(api_history) :
        api_history[i].role = "tool" => api_history[i].content \in {"success", "error"}

(* the run t ended without having condensed the buffer *)
RunFailed(t) == t.pc = "done" /\ t.outcome \in {"failed", "raised", "partial"}

(* C33: after a summarizer run that failed, the turns of the later         *)
(* requests are still appended to the buffer, every later request that     *)
(* finds more than 10 turns after its own dispatches the summarizer again, *)
(* and a run that succeeds leaves 10 turns; once no backend fails any more *)
(* and a run is waiting, the buffer comes back to 10 turns.                *)
C33_RecoversAfterFailedRun ==
    /\ [][ RunFailed(lastRun) =>
             LET s == req.session_id
             IN /\ (pc = "ANSWERED" /\ pc' = "save_assistant") =>
                      buffer'[s] = Append(buffer[s], Turn("user", req.user_prompt, nextId))
                /\ (pc = "save_assistant" /\ pc' = "check") =>
                      buffer'[s] = Append(buffer[s], Turn("assistant", req.final_response_text,
                                                          req.assistant_turn_id))
                /\ (pc = "check" /\ pc' = "idle" /\ Len(buffer[s]) > SummaryThreshold) =>
                      /\ result'.dispatched
                      /\ tasks' = Append(tasks, NewTask(s, requests))
                /\ (lastRun' # lastRun /\ lastRun'.outcome = "success") =>
                      Len(buffer'[lastRun'.session_id]) = KeepTurns
         ]_vars
    /\ (faults = MaxFaults /\ faults > 0 /\ tasks # <<>> /\ Len(buffer["s1"]) > KeepTurns)
          ~> (Len(buffer["s1"]) = KeepTurns)

(* a run failed, a later request dispatched another one, which succeeded   *)
(* and left 10 turns                                                       *)
C33_Witness ==
    /\ faults > 0
    /\ lastRun.outcome = "success"
    /\ lastRun.id = 2
    /\ Len(lastRun.removed) = 4
    /\ Len(buffer["s1"]) = KeepTurns

(* C34: every main model call of a request, in every round, goes to the    *)
(* provider and the model the request carried and gets the temperature and *)
(* the max_tokens the request carried, whatever requests and settings      *)
(* calls came before it.                                                   *)
C34_RequestUsesItsOwnSettings ==
    [][ (pc = "AWAITING_MODEL" /\ req'.mainCalls = req.mainCalls + 1) =>
            /\ req.llm_provider = <<req.llm_settings.provider_name, req.llm_settings.model_name>>
            /\ req.api_call_params = [temperature |-> req.llm_settings.temperature,
                                      max_tokens |-> req.llm_settings.max_tokens]
            /\ llm_config = req.llm_settings
      ]_vars

(* the second round of the second request, which carries other settings    *)
(* than the process started with and than the first request                *)
C34_Witness ==
    /\ requests = 2
    /\ pc = "ANSWERED"
    /\ req.mainCalls = 2
    /\ req.llm_settings # DefaultConfig
    /\ req.llm_provider = <<"openai", "gpt-3.5-turbo">>
    /\ req.api_call_params = [temperature |-> 0, max_tokens |-> 800]
    /\ Cardinality(loaded_instances) = 2

(* what the model said in an intermediate round and what the tools gave    *)
(* back: the contents that live in the conversation state only             *)
RoundContents == {"partial", "success", "error", "cancelled"}

(* no tier holds a tool-call message or a tool result *)
NoRoundContent ==
    /\ \A s \in Sessions : \A i \in 1..Len(buffer[s]) :
          buffer[s][i].role \in {"user", "assistant"} /\ buffer[s][i].content \notin RoundContents
    /\ \A d \in chroma : d.role = "assistant" /\ d.document \notin RoundContents
    /\ \A m \in graph_messages : m.role \in {"user", "assistant"} /\ m.text \notin RoundContents
    /\ \A s \in Sessions : summary[s].summary \notin RoundContents

(* C35 as stated: a request that reached its final answer appends the user *)
(* turn and then the assistant turn to the buffer, two turns in all, and   *)
(* the rounds before the answer write to no tier.                          *)
C35_ExactlyTwoTurns ==
    [][ LET s == req.session_id
        IN /\ pc = "ANSWERED" => buffer'[s] = Append(buffer[s], Turn("user", req.user_prompt, nextId))
           /\ pc = "save_assistant" =>
                 buffer'[s] = Append(buffer[s], Turn("assistant", req.final_response_text,
                                                     req.assistant_turn_id))
           /\ pc \notin {"ANSWERED", "save_assistant"} => stores' = stores
           /\ NoRoundContent'
      ]_vars

(* C35, amended: a request that reached its final answer appends the user  *)
(* turn and then the assistant turn to the buffer, each unless its write   *)
(* to the buffer fails, which skips it; when both writes go through they   *)
(* are the last two turns of the buffer.  The rounds before the answer     *)
(* write to no tier, and no tier ever holds a tool-call message or a tool  *)
(* result.                                                                 *)
C35_TwoTurnsUnlessWriteFails ==
    [][ LET s == req.session_id
            u == Turn("user", req.user_prompt, nextId)
            a == Turn("assistant", req.final_response_text, req.assistant_turn_id)
        IN /\ pc = "ANSWERED" =>
                 buffer'[s] = (IF "redis_user" \in req'.persisted THEN Append(buffer[s], u) ELSE buffer[s])
           /\ pc = "save_assistant" =>
                 /\ buffer'[s] = (IF "redis_assistant" \in req'.persisted THEN Append(buffer[s], a)
                                  ELSE buffer[s])
                 /\ {"redis_user", "redis_assistant"} \subseteq req'.persisted =>
                       LastTwo(buffer'[s]) = <<Turn("user", req.user_prompt, req.user_turn_id), a>>
           /\ pc \in {"ANSWERED", "save_assistant"} => \A x \in Sessions \ {s} : buffer'[x] = buffer[x]
           /\ pc \notin {"ANSWERED", "save_assistant"} => stores' = stores
           /\ NoRoundContent'
      ]_vars

(* a request answered in its second round, after a tool result entered the *)
(* conversation state, with both turns at the end of the buffer            *)
C35_Witness ==
    /\ pc = "check"
    /\ req.mainCalls = 2
    /\ req.toolExecs = 1
    /\ faults = 0
    /\ Len(buffer["s1"]) = 2 * InitRequests + 2
    /\ LastTwo(buffer["s1"]) = <<Turn("user", req.user_prompt, req.user_turn_id),
                                 Turn("assistant", "answer", req.assistant_turn_id)>>

(* every run dispatched for session s has completed, and the last of them  *)
(* succeeded: it condensed the buffer, or it read the buffer and found     *)
(* nothing to condense                                                     *)
RunsCompleted(s) ==
    /\ \A i \in 1..Len(tasks) : tasks[i].session_id # s
    /\ lastRun.session_id = s =>
          \/ lastRun.outcome = "success"
          \/ lastRun.outcome = "noop" /\ lastRun.all_turns # <<>>

(* C36: while every run dispatched for a session has succeeded and         *)
(* completed, the buffer of the session holds at most 12 turns, and at     *)
(* most 10 when a request of the session starts.                           *)
C36_BufferAtMostTwelve ==
    \A s \in Sessions :
        RunsCompleted(s) =>
            /\ Len(buffer[s]) <= SummaryThreshold + 2
            /\ (pc = "build" /\ req.session_id = s) => Len(buffer[s]) <= KeepTurns

(* C37: a summarizer run removes turns from the buffer only after it has   *)
(* stored the new rolling summary.                                         *)
C37_TruncatesOnlyAfterStored ==
    (lastRun.pc = "done" /\ lastRun.removed # <<>>) => lastRun.stored

(* C38: a request whose provider cannot be resolved issues no main model   *)
(* call, executes no tool, writes to no memory tier and dispatches no      *)
(* summarizer run; when the resolution fails it returns the error result.  *)
C38_UnresolvedProviderChangesNothing ==
    [][ (pc # "idle" /\ req.llm_settings.provider_name \notin providers) =>
            /\ stores' = stores
            /\ tasks' = tasks
            /\ pc' \in {"provider", "idle"}
            /\ pc' # "idle" => (req'.mainCalls = 0 /\ req'.toolExecs = 0 /\ req'.persisted = {})
            /\ pc = "provider" =>
                  /\ pc' = "idle"
                  /\ result'.kind = "error"
                  /\ result'.rounds = 0
                  /\ result'.persisted = {}
                  /\ ~ result'.dispatched
      ]_vars

(* the second request names a provider that does not exist and gets the    *)
(* error result; the buffer still ends with the turns of the first         *)
C38_Witness ==
    /\ requests = 2
    /\ result.kind = "error"
    /\ result.session_id = "s1"
    /\ llm_config.provider_name = "nope"
    /\ Len(buffer["s1"]) = 2 * InitRequests + 2
    /\ Len(tasks) = IF ShouldSummarize(2 * InitRequests + 2) THEN 1 ELSE 0

(* C39: an invocation whose arguments are valid JSON but no object does    *)
(* not abort the turn: it is executed or skipped, and the loop goes on to  *)
(* the next invocation or to the next call of the model.                   *)
C39_NonObjectArgumentsDoNotAbort ==
    [][ (pc = "EXECUTING_TOOLS" /\ response.tool_calls[req.idx].arguments = "arr") =>
            /\ pc' \in {"EXECUTING_TOOLS", "AWAITING_MODEL"}
            /\ req'.idx = req.idx + 1
            /\ \/ api_history' = api_history
               \/ \E status \in {"success", "error"} :
                     api_history' = Append(api_history, ToolMessage(response.tool_calls[req.idx], status))
      ]_vars

(* C40: when the plugin raises under a resolved invocation, the error      *)
(* result of execute_tool enters the conversation state under the          *)
(* identifier of the call, and the loop goes on to the next invocation of  *)
(* the round or, after the last one, to the next call of the model.        *)
C40_RaisingPluginDoesNotAbort ==
    [][ (pc = "EXECUTING_TOOLS" /\ pc' # "idle" /\ req'.toolRaises = req.toolRaises + 1) =>
            LET tool_call == response.tool_calls[req.idx]
            IN /\ api_history' = Append(api_history,
                                        HistoryMessage("tool", "error", tool_call.id, tool_call.name))
               /\ req'.idx = req.idx + 1
               /\ pc' = (IF req.idx < Len(response.tool_calls) THEN "EXECUTING_TOOLS"
                         ELSE "AWAITING_MODEL")
               /\ pc' = "AWAITING_MODEL" => req'.mainCalls <= MaxRounds
      ]_vars

(* the first of two invocations raised in its plugin, the second was       *)
(* executed, and the model was called again and answered                   *)
C40_Witness ==
    /\ pc = "ANSWERED"
    /\ req.toolRaises = 1
    /\ req.toolExecs = 2
    /\ req.mainCalls = 2
    /\ \E i \in 1..(Len(api_history) - 1) :
          /\ api_history[i] = HistoryMessage("tool", "error", 1, "list_directory")
          /\ api_history[i + 1] = HistoryMessage("tool", "success", 2, "query_knowledge_base")

====
